---- MODULE Spec2Model ----
(***************************************************************************)
(* Model of the generic chained hash table of src/src/dict.c ("dict"):     *)
(* two bucket arrays with incremental rehashing, the resize policy and the *)
(* add / find / replace / delete family of operations.                     *)
(*                                                                         *)
(* A bucket array is a function 0..size-1 -> chain; a chain is the         *)
(* sequence of its entries, head first.  The absent (NULL) array is <<>>.  *)
(* An entry is a record [key, val, kind]; kind is the pointer tag of the   *)
(* entry ("normal", "novalue", or "key" for a key stored directly in the   *)
(* bucket, which has no next field).                                       *)
(***************************************************************************)
EXTENDS Integers, Sequences, FiniteSets, TLC

\* ---------------------------------------------------------------- bounds
NumKeys == 3
NumFillKeys == 6
NumLoadKeys == 41
NumDrainKeys == 64
NumGrowKeys == 9
MaxExp == 8
MaxVal == 1
MaxPause == 1
MaxBatches == 2
\* the width of the scan cursor, an unsigned long
CursorBits == 8

Keys == 1..NumKeys
\* the keys of the insert-only runs
FillKeys == 1..NumFillKeys
\* the keys of the runs that load a table far beyond its size
LoadKeys == 1..NumLoadKeys
Vals == 1..MaxVal

\* ------------------------------------------------------- program constants
DICT_HT_INITIAL_EXP == 2
DICT_HT_INITIAL_SIZE == 2 ^ DICT_HT_INITIAL_EXP
HASHTABLE_MIN_FILL == 8
dict_force_resize_ratio == 4

DICT_OK == 0
DICT_ERR == 1

\* the value field of an entry nothing has been written to
NoVal == 0

\* sizes passed to the explicit dictExpand / dictTryExpand / dictShrink calls,
\* and the smaller choice of the runs that record calls
CallSizes == {3, 8}
ResizeSizes == {3, 8, 16, 128}
\* step counts passed to dictRehash
RehashSteps == {1, 2}

\* type descriptors the container is created with
DefaultType ==
    [no_value |-> FALSE, keys_are_odd |-> FALSE, no_incremental_rehash |-> FALSE, resizeAllowed |-> TRUE]

DictTypes ==
    { DefaultType,
      [DefaultType EXCEPT !.no_incremental_rehash = TRUE],
      [DefaultType EXCEPT !.no_value = TRUE, !.keys_are_odd = TRUE],
      [DefaultType EXCEPT !.resizeAllowed = FALSE] }

VARIABLES
    d,               \* the dict: ht_table, ht_size_exp, ht_used, rehashidx, pauserehash, pauseAutoResize
    type,            \* d->type, the type descriptor
    dict_can_resize, \* the global resize state
    ref,             \* reference map: the keys present -> the value last written
    last             \* the last call and what it returned

vars == <<d, type, dict_can_resize, ref, last>>

\* ------------------------------------------------------------ hashing
\* the descriptor's hash function, here a fixed table of 64-bit hash values
HashValues ==
    <<1, 141, 6, 2, 66, 3, 7, 0, 165, 77, 202, 24, 37, 48, 187, 29,
      109, 19, 44, 222, 214, 35, 123, 46, 217, 30, 63, 114, 31, 203, 25, 113,
      23, 68, 148, 214, 73, 60, 157, 92, 52, 96, 190, 49, 32, 30, 105, 254,
      231, 238, 231, 97, 94, 243, 95, 48, 228, 155, 72, 46, 21, 202, 231, 80,
      7, 32, 30, 18, 97, 123, 15, 237>>

dictHashKey(key) == HashValues[key]

DICTHT_SIZE(exp) == IF exp = -1 THEN 0 ELSE 2 ^ exp

DICTHT_SIZE_MASK(exp) == IF exp = -1 THEN 0 ELSE 2 ^ exp - 1

\* h & mask for a mask of the form 2^e - 1
BitAnd(h, mask) == h % (mask + 1)

dictIsRehashing(dd) == dd.rehashidx # -1

dictSize(dd) == dd.ht_used[0] + dd.ht_used[1]

NullTable == << >>

NewTable(exp) == [i \in 0..(DICTHT_SIZE(exp) - 1) |-> << >>]

Fault(dd, what) == [dd EXCEPT !.fault = IF @ = "none" THEN what ELSE @]

\* In applied to value: names the result of a call for the code that follows
\* it; the value is computed once, before In is applied to it
With(value, In(_)) == CHOOSE result \in {In(x) : x \in {value}} : TRUE

\* ------------------------------------------------------------ entries
dictGetNext(chain) == IF Head(chain).kind = "key" THEN << >> ELSE Tail(chain)

RECURSIVE Walk(_)
\* the entries a chain walk by dictGetNext visits
Walk(chain) ==
    IF chain = << >> THEN << >>
    ELSE <<Head(chain)>> \o Walk(dictGetNext(chain))

\* position in the chain of the first entry whose key compares equal, 0 if none
ChainFind(chain, key) ==
    LET w == Walk(chain)
        hits == {i \in 1..Len(w) : w[i].key = key}
    IN IF hits = {} THEN 0 ELSE CHOOSE i \in hits : \A j \in hits : i <= j

dictSetVal(chain, pos, val) == [chain EXCEPT ![pos].val = val]

\* ------------------------------------------------------------ construction
dictReset(dd, htidx) ==
    [dd EXCEPT !.ht_table[htidx] = NullTable,
               !.ht_size_exp[htidx] = -1,
               !.ht_used[htidx] = 0]

dictInit ==
    [ht_table |-> [i \in 0..1 |-> NullTable],
     ht_size_exp |-> [i \in 0..1 |-> -1],
     ht_used |-> [i \in 0..1 |-> 0],
     rehashidx |-> -1,
     pauserehash |-> 0,
     pauseAutoResize |-> 0,
     fault |-> "none",
     moved |-> {},
     fired |-> << >>]

RECURSIVE dictNextExpFrom(_, _)
dictNextExpFrom(size, e) == IF 2 ^ e >= size THEN e ELSE dictNextExpFrom(size, e + 1)

\* dictNextExp without the floor of the initial size
dictNextExp_NoFloor(size) == dictNextExpFrom(size, 0)

dictNextExp(size) ==
    IF size <= DICT_HT_INITIAL_SIZE THEN DICT_HT_INITIAL_EXP
    ELSE dictNextExpFrom(size, 0)

\* ------------------------------------------------------------ rehashing
RECURSIVE MoveEntries_SourceIndex(_, _, _, _, _)
\* MoveEntries that takes the destination from the source index when growing too
MoveEntries_SourceIndex(dd, t1, chain, idx, n) ==
    IF chain = << >> THEN [t1 |-> t1, n |-> n]
    ELSE LET de == Head(chain)
             nextde == dictGetNext(chain)
             h == BitAnd(idx, DICTHT_SIZE_MASK(dd.ht_size_exp[1]))
             newde == IF type.no_value
                      THEN IF type.keys_are_odd /\ t1[h] = << >>
                           THEN [de EXCEPT !.kind = "key"]
                           ELSE [de EXCEPT !.kind = "novalue"]
                      ELSE de
         IN MoveEntries_SourceIndex(dd, [t1 EXCEPT ![h] = <<newde>> \o @], nextde, idx, n + 1)

RECURSIVE MoveEntries_KeepsKind(_, _, _, _, _)
\* MoveEntries that links every entry as it is, a directly stored key too
MoveEntries_KeepsKind(dd, t1, chain, idx, n) ==
    IF chain = << >> THEN [t1 |-> t1, n |-> n]
    ELSE LET de == Head(chain)
             nextde == dictGetNext(chain)
             h == IF dd.ht_size_exp[1] > dd.ht_size_exp[0]
                  THEN BitAnd(dictHashKey(de.key), DICTHT_SIZE_MASK(dd.ht_size_exp[1]))
                  ELSE BitAnd(idx, DICTHT_SIZE_MASK(dd.ht_size_exp[1]))
         IN MoveEntries_KeepsKind(dd, [t1 EXCEPT ![h] = <<de>> \o @], nextde, idx, n + 1)

RECURSIVE MoveEntries(_, _, _, _, _)
\* the while loop of rehashEntriesInBucketAtIndex: t1 is ht_table[1], chain the
\* rest of the source chain, n the number of entries moved so far
MoveEntries(dd, t1, chain, idx, n) ==
    IF chain = << >> THEN [t1 |-> t1, n |-> n]
    ELSE LET de == Head(chain)
             nextde == dictGetNext(chain)
             h == IF dd.ht_size_exp[1] > dd.ht_size_exp[0]
                  THEN BitAnd(dictHashKey(de.key), DICTHT_SIZE_MASK(dd.ht_size_exp[1]))
                  ELSE BitAnd(idx, DICTHT_SIZE_MASK(dd.ht_size_exp[1]))
             newde == IF type.no_value
                      THEN IF type.keys_are_odd /\ t1[h] = << >>
                           THEN [de EXCEPT !.kind = "key"]
                           ELSE [de EXCEPT !.kind = "novalue"]
                      ELSE de
         IN MoveEntries(dd, [t1 EXCEPT ![h] = <<newde>> \o @], nextde, idx, n + 1)

\* rehashEntriesInBucketAtIndex that leaves used[0] as it was
rehashEntriesInBucketAtIndex_KeepsUsed(dd, idx) ==
    With(MoveEntries(dd, dd.ht_table[1], dd.ht_table[0][idx], idx, 0), LAMBDA m :
        [dd EXCEPT !.ht_table[1] = m.t1,
                   !.ht_table[0][idx] = << >>,
                   !.ht_used[1] = @ + m.n,
                   !.moved = IF m.n > 0 THEN @ \cup {<<dd.ht_size_exp[0], dd.ht_size_exp[1]>>} ELSE @])

rehashEntriesInBucketAtIndex(dd, idx) ==
    With(MoveEntries(dd, dd.ht_table[1], dd.ht_table[0][idx], idx, 0), LAMBDA m :
        [dd EXCEPT !.ht_table[1] = m.t1,
                   !.ht_table[0][idx] = << >>,
                   !.ht_used[0] = @ - m.n,
                   !.ht_used[1] = @ + m.n,
                   !.moved = IF m.n > 0 THEN @ \cup {<<dd.ht_size_exp[0], dd.ht_size_exp[1]>>} ELSE @])

\* dictCheckRehashingCompleted that does not reset T[1]
dictCheckRehashingCompleted_KeepsT1(dd) ==
    IF dd.ht_used[0] # 0 THEN [d |-> dd, ret |-> 0]
    ELSE [d |-> [dd EXCEPT !.ht_table[0] = dd.ht_table[1],
                           !.ht_used[0] = dd.ht_used[1],
                           !.ht_size_exp[0] = dd.ht_size_exp[1],
                           !.rehashidx = -1,
                           !.fired = Append(@, "rehashingCompleted")],
          ret |-> 1]

dictCheckRehashingCompleted(dd) ==
    IF dd.ht_used[0] # 0 THEN [d |-> dd, ret |-> 0]
    ELSE [d |-> [dictReset([dd EXCEPT !.ht_table[0] = dd.ht_table[1],
                                      !.ht_used[0] = dd.ht_used[1],
                                      !.ht_size_exp[0] = dd.ht_size_exp[1],
                                      !.fired = Append(@, "rehashingCompleted")], 1)
                 EXCEPT !.rehashidx = -1],
          ret |-> 1]

\* the gate without the thresholds of the avoid state
RehashBlocked_IgnoresAvoid(dd) ==
    \/ dict_can_resize = "forbid"
    \/ ~dictIsRehashing(dd)

\* the gate shared by dictRehash and dictBucketRehash: TRUE when the step is refused
RehashBlocked(dd) ==
    LET s0 == DICTHT_SIZE(dd.ht_size_exp[0])
        s1 == DICTHT_SIZE(dd.ht_size_exp[1])
    IN \/ dict_can_resize = "forbid"
       \/ ~dictIsRehashing(dd)
       \/ /\ dict_can_resize = "avoid"
          /\ \/ (s1 > s0 /\ s1 < dict_force_resize_ratio * s0)
             \/ (s1 < s0 /\ s0 < HASHTABLE_MIN_FILL * dict_force_resize_ratio * s1)

RECURSIVE SkipEmpty(_, _)
\* the inner while loop of dictRehash over empty buckets
SkipEmpty(dd, empty_visits) ==
    IF dd.rehashidx >= DICTHT_SIZE(dd.ht_size_exp[0])
    THEN [d |-> Fault(dd, "out_of_bounds"), empty_visits |-> empty_visits, yield |-> TRUE]
    ELSE IF dd.ht_table[0][dd.rehashidx] # << >>
    THEN [d |-> dd, empty_visits |-> empty_visits, yield |-> FALSE]
    ELSE IF empty_visits - 1 = 0
    THEN [d |-> [dd EXCEPT !.rehashidx = @ + 1], empty_visits |-> 0, yield |-> TRUE]
    ELSE SkipEmpty([dd EXCEPT !.rehashidx = @ + 1], empty_visits - 1)

RECURSIVE RehashLoop_LeavesBucket(_, _, _)
\* the outer loop advancing the cursor past a bucket it did not migrate
RehashLoop_LeavesBucket(dd, n, empty_visits) ==
    IF n = 0 \/ dd.ht_used[0] = 0 THEN [d |-> dd, yield |-> FALSE]
    ELSE IF ~(DICTHT_SIZE(dd.ht_size_exp[0]) > dd.rehashidx)
    THEN [d |-> Fault(dd, "assert"), yield |-> TRUE]
    ELSE With(SkipEmpty(dd, empty_visits), LAMBDA s :
             IF s.yield THEN [d |-> s.d, yield |-> TRUE]
             ELSE RehashLoop_LeavesBucket([s.d EXCEPT !.rehashidx = @ + 1],
                                          n - 1, s.empty_visits))

RECURSIVE RehashLoop(_, _, _)
\* the outer while loop of dictRehash; yield is the early "return 1"
RehashLoop(dd, n, empty_visits) ==
    IF n = 0 \/ dd.ht_used[0] = 0 THEN [d |-> dd, yield |-> FALSE]
    ELSE IF ~(DICTHT_SIZE(dd.ht_size_exp[0]) > dd.rehashidx)
    THEN [d |-> Fault(dd, "assert"), yield |-> TRUE]
    ELSE With(SkipEmpty(dd, empty_visits), LAMBDA s :
             IF s.yield THEN [d |-> s.d, yield |-> TRUE]
             ELSE RehashLoop([rehashEntriesInBucketAtIndex(s.d, s.d.rehashidx)
                                 EXCEPT !.rehashidx = @ + 1],
                             n - 1, s.empty_visits))

\* dictRehash that returns at once when T[0] holds no entry
dictRehash_NothingToMove(dd, n) ==
    IF RehashBlocked(dd) \/ dd.ht_used[0] = 0 THEN [d |-> dd, ret |-> 0]
    ELSE With(RehashLoop(dd, n, n * 10), LAMBDA r :
             IF r.yield THEN [d |-> r.d, ret |-> 1]
             ELSE With(dictCheckRehashingCompleted(r.d), LAMBDA c :
                      [d |-> c.d, ret |-> 1 - c.ret]))

\* dictRehash that returns 0 when it gives up after its empty visits
dictRehash_YieldReportsDone(dd, n) ==
    IF RehashBlocked(dd) THEN [d |-> dd, ret |-> 0]
    ELSE With(RehashLoop(dd, n, n * 10), LAMBDA r :
             IF r.yield THEN [d |-> r.d, ret |-> 0]
             ELSE With(dictCheckRehashingCompleted(r.d), LAMBDA c :
                      [d |-> c.d, ret |-> 1 - c.ret]))

dictRehash(dd, n) ==
    IF RehashBlocked(dd) THEN [d |-> dd, ret |-> 0]
    ELSE With(RehashLoop(dd, n, n * 10), LAMBDA r :
             IF r.yield THEN [d |-> r.d, ret |-> 1]
             ELSE With(dictCheckRehashingCompleted(r.d), LAMBDA c :
                      [d |-> c.d, ret |-> 1 - c.ret]))

RECURSIVE RehashAll(_)
\* while (dictRehash(d, 1000));
RehashAll(dd) ==
    With(dictRehash(dd, 1000), LAMBDA r :
        IF r.ret = 0 \/ r.d.fault # "none" THEN r.d ELSE RehashAll(r.d))

\* dictRehashStep that does no rehash work
dictRehashStep_Idle(dd) == dd

dictRehashStep(dd) == IF dd.pauserehash = 0 THEN dictRehash(dd, 1).d ELSE dd

dictBucketRehash(dd, idx) ==
    IF dd.pauserehash # 0 THEN dd
    ELSE IF RehashBlocked(dd) THEN dd
    ELSE dictCheckRehashingCompleted(rehashEntriesInBucketAtIndex(dd, idx)).d

\* the rehash work find, delete and find-position-for-insert do before searching
RehashOnAccess(dd, idx) ==
    IF ~dictIsRehashing(dd) THEN dd
    ELSE IF idx >= dd.rehashidx /\ dd.ht_table[0][idx] # << >>
    THEN dictBucketRehash(dd, idx)
    ELSE dictRehashStep(dd)

\* ------------------------------------------------------------ resizing
dictResizeWithOptionalCheck(dd, size, malloc_fails) ==
    IF dictIsRehashing(dd) THEN [d |-> Fault(dd, "assert"), ret |-> DICT_ERR, malloc_failed |-> FALSE]
    ELSE LET new_ht_size_exp == dictNextExp(size)
         IN IF new_ht_size_exp = dd.ht_size_exp[0]
            THEN [d |-> dd, ret |-> DICT_ERR, malloc_failed |-> FALSE]
            ELSE IF malloc_fails
            THEN [d |-> dd, ret |-> DICT_ERR, malloc_failed |-> TRUE]
            ELSE IF dd.ht_size_exp[0] = -1 \/ dd.ht_used[0] = 0
            THEN [d |-> [dd EXCEPT !.ht_size_exp[0] = new_ht_size_exp,
                                   !.ht_used[0] = 0,
                                   !.ht_table[0] = NewTable(new_ht_size_exp),
                                   !.fired = @ \o <<"rehashingStarted", "rehashingCompleted">>],
                  ret |-> DICT_OK, malloc_failed |-> FALSE]
            ELSE LET started == [dd EXCEPT !.ht_size_exp[1] = new_ht_size_exp,
                                           !.ht_used[1] = 0,
                                           !.ht_table[1] = NewTable(new_ht_size_exp),
                                           !.rehashidx = 0,
                                           !.fired = Append(@, "rehashingStarted")]
                 IN [d |-> IF type.no_incremental_rehash THEN RehashAll(started) ELSE started,
                     ret |-> DICT_OK, malloc_failed |-> FALSE]

dictExpandWithOptionalCheck(dd, size, malloc_fails) ==
    IF dictIsRehashing(dd) \/ dd.ht_used[0] > size \/ DICTHT_SIZE(dd.ht_size_exp[0]) >= size
    THEN [d |-> dd, ret |-> DICT_ERR, malloc_failed |-> FALSE]
    ELSE dictResizeWithOptionalCheck(dd, size, malloc_fails)

dictExpand(dd, size) ==
    With(dictExpandWithOptionalCheck(dd, size, FALSE), LAMBDA r : [d |-> r.d, ret |-> r.ret])

\* dictTryExpand that reports what dictExpand reports
dictTryExpand_ReportsSkipped(dd, size, malloc_fails) ==
    With(dictExpandWithOptionalCheck(dd, size, malloc_fails), LAMBDA r :
        [d |-> r.d, ret |-> r.ret])

dictTryExpand(dd, size, malloc_fails) ==
    With(dictExpandWithOptionalCheck(dd, size, malloc_fails), LAMBDA r :
        [d |-> r.d, ret |-> IF r.malloc_failed THEN DICT_ERR ELSE DICT_OK])

\* dictShrink that does not compare the size with the number of entries
dictShrink_IgnoresUsed(dd, size) ==
    IF dictIsRehashing(dd) \/ DICTHT_SIZE(dd.ht_size_exp[0]) <= size
    THEN [d |-> dd, ret |-> DICT_ERR]
    ELSE With(dictResizeWithOptionalCheck(dd, size, FALSE), LAMBDA r : [d |-> r.d, ret |-> r.ret])

dictShrink(dd, size) ==
    IF dictIsRehashing(dd) \/ dd.ht_used[0] > size \/ DICTHT_SIZE(dd.ht_size_exp[0]) <= size
    THEN [d |-> dd, ret |-> DICT_ERR]
    ELSE With(dictResizeWithOptionalCheck(dd, size, FALSE), LAMBDA r : [d |-> r.d, ret |-> r.ret])

\* dictTypeResizeAllowed that never calls the type's resizeAllowed
dictTypeResizeAllowed_NoCallback(dd, size) == TRUE

dictTypeResizeAllowed(dd, size) == type.resizeAllowed

\* dictExpandIfNeeded with the threshold of the enable state under avoid too
dictExpandIfNeeded_AvoidAtOne(dd) ==
    IF dictIsRehashing(dd) THEN dd
    ELSE IF DICTHT_SIZE(dd.ht_size_exp[0]) = 0
    THEN dictExpand(dd, DICT_HT_INITIAL_SIZE).d
    ELSE IF dict_can_resize # "forbid" /\ dd.ht_used[0] >= DICTHT_SIZE(dd.ht_size_exp[0])
    THEN IF dictTypeResizeAllowed(dd, dd.ht_used[0] + 1)
         THEN dictExpand(dd, dd.ht_used[0] + 1).d
         ELSE dd
    ELSE dd

\* dictExpandIfNeeded that counts the entry about to be inserted
dictExpandIfNeeded_CountsNewEntry(dd) ==
    IF dictIsRehashing(dd) THEN dd
    ELSE IF DICTHT_SIZE(dd.ht_size_exp[0]) = 0
    THEN dictExpand(dd, DICT_HT_INITIAL_SIZE).d
    ELSE IF \/ (dict_can_resize = "enable"
                /\ dd.ht_used[0] + 1 >= DICTHT_SIZE(dd.ht_size_exp[0]))
            \/ (dict_can_resize # "forbid"
                /\ dd.ht_used[0] + 1 >= dict_force_resize_ratio * DICTHT_SIZE(dd.ht_size_exp[0]))
    THEN IF dictTypeResizeAllowed(dd, dd.ht_used[0] + 2)
         THEN dictExpand(dd, dd.ht_used[0] + 2).d
         ELSE dd
    ELSE dd

dictExpandIfNeeded(dd) ==
    IF dictIsRehashing(dd) THEN dd
    ELSE IF DICTHT_SIZE(dd.ht_size_exp[0]) = 0
    THEN dictExpand(dd, DICT_HT_INITIAL_SIZE).d
    ELSE IF \/ (dict_can_resize = "enable" /\ dd.ht_used[0] >= DICTHT_SIZE(dd.ht_size_exp[0]))
            \/ (dict_can_resize # "forbid"
                /\ dd.ht_used[0] >= dict_force_resize_ratio * DICTHT_SIZE(dd.ht_size_exp[0]))
    THEN IF dictTypeResizeAllowed(dd, dd.ht_used[0] + 1)
         THEN dictExpand(dd, dd.ht_used[0] + 1).d
         ELSE dd
    ELSE dd

\* dictShrinkIfNeeded that shrinks only strictly below the two fill ratios
dictShrinkIfNeeded_StrictlyBelow(dd) ==
    IF dictIsRehashing(dd) THEN dd
    ELSE IF DICTHT_SIZE(dd.ht_size_exp[0]) <= DICT_HT_INITIAL_SIZE THEN dd
    ELSE IF \/ (dict_can_resize = "enable"
                /\ dd.ht_used[0] * HASHTABLE_MIN_FILL < DICTHT_SIZE(dd.ht_size_exp[0]))
            \/ (dict_can_resize # "forbid"
                /\ dd.ht_used[0] * HASHTABLE_MIN_FILL * dict_force_resize_ratio
                       < DICTHT_SIZE(dd.ht_size_exp[0]))
    THEN IF dictTypeResizeAllowed(dd, dd.ht_used[0])
         THEN dictShrink(dd, dd.ht_used[0]).d
         ELSE dd
    ELSE dd

dictShrinkIfNeeded(dd) ==
    IF dictIsRehashing(dd) THEN dd
    ELSE IF DICTHT_SIZE(dd.ht_size_exp[0]) <= DICT_HT_INITIAL_SIZE THEN dd
    ELSE IF \/ (dict_can_resize = "enable"
                /\ dd.ht_used[0] * HASHTABLE_MIN_FILL <= DICTHT_SIZE(dd.ht_size_exp[0]))
            \/ (dict_can_resize # "forbid"
                /\ dd.ht_used[0] * HASHTABLE_MIN_FILL * dict_force_resize_ratio
                       <= DICTHT_SIZE(dd.ht_size_exp[0]))
    THEN IF dictTypeResizeAllowed(dd, dd.ht_used[0])
         THEN dictShrink(dd, dd.ht_used[0]).d
         ELSE dd
    ELSE dd

dictShrinkIfAutoResizeAllowed(dd) ==
    IF dd.pauseAutoResize > 0 THEN dd ELSE dictShrinkIfNeeded(dd)

\* dictExpandIfAutoResizeAllowed that does not read pauseAutoResize
dictExpandIfAutoResizeAllowed_IgnoresPause(dd) == dictExpandIfNeeded(dd)

dictExpandIfAutoResizeAllowed(dd) ==
    IF dd.pauseAutoResize > 0 THEN dd ELSE dictExpandIfNeeded(dd)

\* ------------------------------------------------------------ lookup
\* the search loop skipping T[0] also for the bucket at the cursor
SearchTables_SkipsCursorBucket(dd, key, idx0) ==
    LET h == dictHashKey(key)
        i0 == BitAnd(h, DICTHT_SIZE_MASK(dd.ht_size_exp[0]))
        i1 == BitAnd(h, DICTHT_SIZE_MASK(dd.ht_size_exp[1]))
        skip0 == idx0 <= dd.rehashidx
        null0 == dd.ht_size_exp[0] = -1
        null1 == dd.ht_size_exp[1] = -1
        p0 == IF skip0 \/ null0 THEN 0 ELSE ChainFind(dd.ht_table[0][i0], key)
        p1 == IF null1 THEN 0 ELSE ChainFind(dd.ht_table[1][i1], key)
    IN IF ~skip0 /\ null0 THEN [table |-> 0, idx |-> i0, pos |-> 0, null |-> TRUE]
       ELSE IF p0 # 0 THEN [table |-> 0, idx |-> i0, pos |-> p0, null |-> FALSE]
       ELSE IF ~skip0 /\ ~dictIsRehashing(dd) THEN [table |-> 0, idx |-> i0, pos |-> 0, null |-> FALSE]
       ELSE IF null1 THEN [table |-> 1, idx |-> i1, pos |-> 0, null |-> TRUE]
       ELSE [table |-> 1, idx |-> i1, pos |-> p1, null |-> FALSE]

\* the search loop over the two tables shared by dictFind, dictGenericDelete
\* and dictFindPositionForInsert; idx0 is the index computed before the
\* rehash work.  Returns the table, the index last computed and the position
\* of the entry in its chain (0 when not found); null is a read through a
\* NULL bucket array.
SearchTables(dd, key, idx0) ==
    LET h == dictHashKey(key)
        i0 == BitAnd(h, DICTHT_SIZE_MASK(dd.ht_size_exp[0]))
        i1 == BitAnd(h, DICTHT_SIZE_MASK(dd.ht_size_exp[1]))
        skip0 == idx0 < dd.rehashidx
        null0 == dd.ht_size_exp[0] = -1
        null1 == dd.ht_size_exp[1] = -1
        p0 == IF skip0 \/ null0 THEN 0 ELSE ChainFind(dd.ht_table[0][i0], key)
        p1 == IF null1 THEN 0 ELSE ChainFind(dd.ht_table[1][i1], key)
    IN IF ~skip0 /\ null0 THEN [table |-> 0, idx |-> i0, pos |-> 0, null |-> TRUE]
       ELSE IF p0 # 0 THEN [table |-> 0, idx |-> i0, pos |-> p0, null |-> FALSE]
       ELSE IF ~skip0 /\ ~dictIsRehashing(dd) THEN [table |-> 0, idx |-> i0, pos |-> 0, null |-> FALSE]
       ELSE IF null1 THEN [table |-> 1, idx |-> i1, pos |-> 0, null |-> TRUE]
       ELSE [table |-> 1, idx |-> i1, pos |-> p1, null |-> FALSE]

dictFind(dd, key) ==
    IF dictSize(dd) = 0 THEN [d |-> dd, ret |-> << >>]
    ELSE With(BitAnd(dictHashKey(key), DICTHT_SIZE_MASK(dd.ht_size_exp[0])), LAMBDA idx :
         With(RehashOnAccess(dd, idx), LAMBDA d1 :
         With(SearchTables(d1, key, idx), LAMBDA s :
             IF s.null THEN [d |-> Fault(d1, "null_deref"), ret |-> << >>]
             ELSE IF s.pos = 0 THEN [d |-> d1, ret |-> << >>]
             ELSE [d |-> d1, ret |-> <<Walk(d1.ht_table[s.table][s.idx])[s.pos]>>])))

dictFetchValue(dd, key) ==
    With(dictFind(dd, key), LAMBDA r :
        [d |-> r.d, ret |-> IF r.ret = << >> THEN NoVal ELSE r.ret[1].val])

\* ------------------------------------------------------------ insertion
\* dictFindPositionForInsert that reports an existing key only when it found
\* the key in T[0]
dictFindPositionForInsert_FirstTableOnly(dd, key) ==
    With(BitAnd(dictHashKey(key), DICTHT_SIZE_MASK(dd.ht_size_exp[0])), LAMBDA idx :
    With(dictExpandIfAutoResizeAllowed(RehashOnAccess(dd, idx)), LAMBDA d2 :
    With(SearchTables(d2, key, idx), LAMBDA s :
        IF s.null THEN [d |-> Fault(d2, "null_deref"), position |-> << >>, existing |-> << >>]
        ELSE IF s.pos # 0 /\ s.table = 0
        THEN [d |-> d2, position |-> << >>, existing |-> <<s.table, s.idx, s.pos>>]
        ELSE [d |-> d2,
              position |-> <<IF dictIsRehashing(d2) THEN 1 ELSE 0, s.idx>>,
              existing |-> << >>])))

\* dictFindPositionForInsert that returns the index it computed on entry
dictFindPositionForInsert_FirstIndex(dd, key) ==
    With(BitAnd(dictHashKey(key), DICTHT_SIZE_MASK(dd.ht_size_exp[0])), LAMBDA idx :
    With(dictExpandIfAutoResizeAllowed(RehashOnAccess(dd, idx)), LAMBDA d2 :
    With(SearchTables(d2, key, idx), LAMBDA s :
        IF s.null THEN [d |-> Fault(d2, "null_deref"), position |-> << >>, existing |-> << >>]
        ELSE IF s.pos # 0 THEN [d |-> d2, position |-> << >>, existing |-> <<s.table, s.idx, s.pos>>]
        ELSE [d |-> d2,
              position |-> <<IF dictIsRehashing(d2) THEN 1 ELSE 0, idx>>,
              existing |-> << >>])))

\* position: << >> for NULL, else <<table, idx>>; existing: << >> or <<table, idx, pos>>
dictFindPositionForInsert(dd, key) ==
    With(BitAnd(dictHashKey(key), DICTHT_SIZE_MASK(dd.ht_size_exp[0])), LAMBDA idx :
    With(dictExpandIfAutoResizeAllowed(RehashOnAccess(dd, idx)), LAMBDA d2 :
    With(SearchTables(d2, key, idx), LAMBDA s :
        IF s.null THEN [d |-> Fault(d2, "null_deref"), position |-> << >>, existing |-> << >>]
        ELSE IF s.pos # 0 THEN [d |-> d2, position |-> << >>, existing |-> <<s.table, s.idx, s.pos>>]
        ELSE [d |-> d2,
              position |-> <<IF dictIsRehashing(d2) THEN 1 ELSE 0, s.idx>>,
              existing |-> << >>])))

\* dictInsertAtPosition that does not count the new entry
dictInsertAtPosition_Uncounted(dd, key, position) ==
    LET htidx == IF dictIsRehashing(dd) THEN 1 ELSE 0
        t == position[1]
        idx == position[2]
        bucket == dd.ht_table[t][idx]
        entry == IF type.no_value
                 THEN IF type.keys_are_odd /\ bucket = << >>
                      THEN [key |-> key, val |-> NoVal, kind |-> "key"]
                      ELSE [key |-> key, val |-> NoVal, kind |-> "novalue"]
                 ELSE [key |-> key, val |-> NoVal, kind |-> "normal"]
    IN IF ~(t = htidx /\ idx <= DICTHT_SIZE_MASK(dd.ht_size_exp[htidx]))
       THEN Fault(dd, "assert")
       ELSE [dd EXCEPT !.ht_table[t][idx] = <<entry>> \o @]

\* dictInsertAtPosition that links the new entry at the end of the chain
dictInsertAtPosition_AtTail(dd, key, position) ==
    LET htidx == IF dictIsRehashing(dd) THEN 1 ELSE 0
        t == position[1]
        idx == position[2]
        entry == [key |-> key, val |-> NoVal,
                  kind |-> IF type.no_value THEN "novalue" ELSE "normal"]
    IN IF ~(t = htidx /\ idx <= DICTHT_SIZE_MASK(dd.ht_size_exp[htidx]))
       THEN Fault(dd, "assert")
       ELSE [dd EXCEPT !.ht_table[t][idx] = @ \o <<entry>>,
                       !.ht_used[htidx] = @ + 1]

dictInsertAtPosition(dd, key, position) ==
    LET htidx == IF dictIsRehashing(dd) THEN 1 ELSE 0
        t == position[1]
        idx == position[2]
        bucket == dd.ht_table[t][idx]
        entry == IF type.no_value
                 THEN IF type.keys_are_odd /\ bucket = << >>
                      THEN [key |-> key, val |-> NoVal, kind |-> "key"]
                      ELSE [key |-> key, val |-> NoVal, kind |-> "novalue"]
                 ELSE [key |-> key, val |-> NoVal, kind |-> "normal"]
    IN IF ~(t = htidx /\ idx <= DICTHT_SIZE_MASK(dd.ht_size_exp[htidx]))
       THEN Fault(dd, "assert")
       ELSE [dd EXCEPT !.ht_table[t][idx] = <<entry>> \o @,
                       !.ht_used[htidx] = @ + 1]

\* dictAddRaw that links a new entry also when the key exists
dictAddRaw_InsertsAnyway(dd, key) ==
    With(dictFindPositionForInsert(dd, key), LAMBDA f :
    With(IF f.position = << >> /\ f.existing # << >>
         THEN <<f.existing[1], f.existing[2]>>
         ELSE f.position, LAMBDA position :
        IF position = << >> THEN [d |-> f.d, entry |-> << >>, existing |-> f.existing]
        ELSE [d |-> dictInsertAtPosition(f.d, key, position),
              entry |-> <<position[1], position[2], 1>>,
              existing |-> << >>]))

\* entry: << >> for NULL, else <<table, idx, 1>> (the new entry is the chain head)
dictAddRaw(dd, key) ==
    With(dictFindPositionForInsert(dd, key), LAMBDA f :
        IF f.position = << >> THEN [d |-> f.d, entry |-> << >>, existing |-> f.existing]
        ELSE [d |-> dictInsertAtPosition(f.d, key, f.position),
              entry |-> <<f.position[1], f.position[2], 1>>,
              existing |-> << >>])

\* dictSetVal on the entry an entry reference <<table, idx, pos>> designates
SetValAt(dd, e, val) ==
    [dd EXCEPT !.ht_table[e[1]][e[2]] = dictSetVal(@, e[3], val)]

GetValAt(dd, e) == Walk(dd.ht_table[e[1]][e[2]])[e[3]].val

\* dictAdd that stores the value in the existing entry before it fails
dictAdd_Overwrites(dd, key, val) ==
    With(dictAddRaw(dd, key), LAMBDA r :
        IF r.d.fault # "none" THEN [d |-> r.d, ret |-> DICT_ERR]
        ELSE IF r.entry = << >>
        THEN [d |-> IF type.no_value THEN r.d ELSE SetValAt(r.d, r.existing, val), ret |-> DICT_ERR]
        ELSE [d |-> IF type.no_value THEN r.d ELSE SetValAt(r.d, r.entry, val), ret |-> DICT_OK])

dictAdd(dd, key, val) ==
    With(dictAddRaw(dd, key), LAMBDA r :
        IF r.entry = << >> \/ r.d.fault # "none" THEN [d |-> r.d, ret |-> DICT_ERR]
        ELSE [d |-> IF type.no_value THEN r.d ELSE SetValAt(r.d, r.entry, val), ret |-> DICT_OK])

\* dictReplace that leaves the value of an existing entry as it is
dictReplace_KeepsOldValue(dd, key, val) ==
    With(dictAddRaw(dd, key), LAMBDA r :
        IF r.d.fault # "none" THEN [d |-> r.d, ret |-> 0, destroyed |-> << >>]
        ELSE IF r.entry # << >> THEN [d |-> SetValAt(r.d, r.entry, val), ret |-> 1, destroyed |-> << >>]
        ELSE [d |-> r.d, ret |-> 0, destroyed |-> << >>])

\* dictReplace that releases the old value before it stores the new one
dictReplace_DestroysFirst(dd, key, val) ==
    With(dictAddRaw(dd, key), LAMBDA r :
        IF r.d.fault # "none" THEN [d |-> r.d, ret |-> 0, destroyed |-> << >>, events |-> << >>]
        ELSE IF r.entry # << >>
        THEN [d |-> SetValAt(r.d, r.entry, val), ret |-> 1, destroyed |-> << >>,
              events |-> <<<<"dictSetVal", val>>>>]
        ELSE [d |-> SetValAt(r.d, r.existing, val), ret |-> 0,
              destroyed |-> <<GetValAt(r.d, r.existing)>>,
              events |-> <<<<"valDestructor", GetValAt(r.d, r.existing)>>,
                           <<"dictSetVal", val>>>>])

\* destroyed: the values handed to the value destructor; events: the stores
\* into the entry and the destructor calls, in the order the call made them
dictReplace(dd, key, val) ==
    With(dictAddRaw(dd, key), LAMBDA r :
        IF r.d.fault # "none" THEN [d |-> r.d, ret |-> 0, destroyed |-> << >>, events |-> << >>]
        ELSE IF r.entry # << >>
        THEN [d |-> SetValAt(r.d, r.entry, val), ret |-> 1, destroyed |-> << >>,
              events |-> <<<<"dictSetVal", val>>>>]
        ELSE [d |-> SetValAt(r.d, r.existing, val), ret |-> 0,
              destroyed |-> <<GetValAt(r.d, r.existing)>>,
              events |-> <<<<"dictSetVal", val>>,
                           <<"valDestructor", GetValAt(r.d, r.existing)>>>>])

dictAddOrFind(dd, key) ==
    With(dictAddRaw(dd, key), LAMBDA r :
        [d |-> r.d, ret |-> IF r.entry # << >> THEN r.entry ELSE r.existing])

\* ------------------------------------------------------------ deletion
\* unlink the entry at position pos of a chain: prev->next = he->next
UnlinkAt(chain, pos) ==
    SubSeq(chain, 1, pos - 1)
        \o (IF chain[pos].kind = "key" THEN << >> ELSE SubSeq(chain, pos + 1, Len(chain)))

\* he is << >> for NULL, else <<entry>>.  The result is the sequence of the
\* destructor calls made: the key destructor on the key and, for an entry that
\* has a value, the value destructor on the value.
dictFreeUnlinkedEntry(he) ==
    IF he = << >> THEN << >>
    ELSE <<<<"keyDestructor", he[1].key>>>>
             \o (IF he[1].kind = "normal" THEN <<<<"valDestructor", he[1].val>>>> ELSE << >>)

\* dictGenericDelete that releases the entry whatever nofree says
dictGenericDelete_AlwaysFrees(dd, key, nofree) ==
    IF dictSize(dd) = 0 THEN [d |-> dd, ret |-> << >>, freed |-> << >>]
    ELSE With(BitAnd(dictHashKey(key), DICTHT_SIZE_MASK(dd.ht_size_exp[0])), LAMBDA idx :
         With(RehashOnAccess(dd, idx), LAMBDA d1 :
         With(SearchTables(d1, key, idx), LAMBDA s :
             IF s.null THEN [d |-> Fault(d1, "null_deref"), ret |-> << >>, freed |-> << >>]
             ELSE IF s.pos = 0 THEN [d |-> d1, ret |-> << >>, freed |-> << >>]
             ELSE [d |-> dictShrinkIfAutoResizeAllowed(
                             [d1 EXCEPT !.ht_table[s.table][s.idx] = UnlinkAt(@, s.pos),
                                        !.ht_used[s.table] = @ - 1]),
                   ret |-> <<d1.ht_table[s.table][s.idx][s.pos]>>,
                   freed |-> dictFreeUnlinkedEntry(<<d1.ht_table[s.table][s.idx][s.pos]>>)])))

\* dictGenericDelete that takes the entry off the count of T[0] whichever table
\* it was found in
dictGenericDelete_CountsFirstTable(dd, key, nofree) ==
    IF dictSize(dd) = 0 THEN [d |-> dd, ret |-> << >>, freed |-> << >>]
    ELSE With(BitAnd(dictHashKey(key), DICTHT_SIZE_MASK(dd.ht_size_exp[0])), LAMBDA idx :
         With(RehashOnAccess(dd, idx), LAMBDA d1 :
         With(SearchTables(d1, key, idx), LAMBDA s :
             IF s.null THEN [d |-> Fault(d1, "null_deref"), ret |-> << >>, freed |-> << >>]
             ELSE IF s.pos = 0 THEN [d |-> d1, ret |-> << >>, freed |-> << >>]
             ELSE [d |-> dictShrinkIfAutoResizeAllowed(
                             [d1 EXCEPT !.ht_table[s.table][s.idx] = UnlinkAt(@, s.pos),
                                        !.ht_used[0] = @ - 1]),
                   ret |-> <<d1.ht_table[s.table][s.idx][s.pos]>>,
                   freed |-> IF nofree THEN << >>
                             ELSE dictFreeUnlinkedEntry(<<d1.ht_table[s.table][s.idx][s.pos]>>)])))

\* ret is << >> for NULL, else <<the entry unlinked>>; freed is the sequence of
\* destructor calls the call made
dictGenericDelete(dd, key, nofree) ==
    IF dictSize(dd) = 0 THEN [d |-> dd, ret |-> << >>, freed |-> << >>]
    ELSE With(BitAnd(dictHashKey(key), DICTHT_SIZE_MASK(dd.ht_size_exp[0])), LAMBDA idx :
         With(RehashOnAccess(dd, idx), LAMBDA d1 :
         With(SearchTables(d1, key, idx), LAMBDA s :
             IF s.null THEN [d |-> Fault(d1, "null_deref"), ret |-> << >>, freed |-> << >>]
             ELSE IF s.pos = 0 THEN [d |-> d1, ret |-> << >>, freed |-> << >>]
             ELSE [d |-> dictShrinkIfAutoResizeAllowed(
                             [d1 EXCEPT !.ht_table[s.table][s.idx] = UnlinkAt(@, s.pos),
                                        !.ht_used[s.table] = @ - 1]),
                   ret |-> <<d1.ht_table[s.table][s.idx][s.pos]>>,
                   freed |-> IF nofree THEN << >>
                             ELSE dictFreeUnlinkedEntry(<<d1.ht_table[s.table][s.idx][s.pos]>>)])))

dictDelete(dd, key) ==
    With(dictGenericDelete(dd, key, FALSE), LAMBDA r :
        [d |-> r.d, ret |-> IF r.ret # << >> THEN DICT_OK ELSE DICT_ERR, freed |-> r.freed])

dictUnlink(dd, key) == dictGenericDelete(dd, key, TRUE)

\* the search of dictTwoPhaseUnlinkFind: ret is << >> for NULL, else the
\* reference <<table, idx, pos>> standing for the entry, plink and table_index
dictTwoPhaseUnlinkFind(dd, key) ==
    IF dictSize(dd) = 0 THEN [d |-> dd, ret |-> << >>]
    ELSE With(IF dictIsRehashing(dd) THEN dictRehashStep(dd) ELSE dd, LAMBDA d1 :
         With(SearchTables(d1, key, BitAnd(dictHashKey(key), DICTHT_SIZE_MASK(d1.ht_size_exp[0]))),
              LAMBDA s :
             IF s.null THEN [d |-> Fault(d1, "null_deref"), ret |-> << >>]
             ELSE IF s.pos = 0 THEN [d |-> d1, ret |-> << >>]
             ELSE [d |-> [d1 EXCEPT !.pauserehash = @ + 1], ret |-> <<s.table, s.idx, s.pos>>]))

\* dictTwoPhaseUnlinkFree that leaves rehashing paused
dictTwoPhaseUnlinkFree_NoResume(dd, he) ==
    IF he = << >> THEN dd
    ELSE dictShrinkIfAutoResizeAllowed(
             [dd EXCEPT !.ht_used[he[1]] = @ - 1,
                        !.ht_table[he[1]][he[2]] = UnlinkAt(@, he[3])])

dictTwoPhaseUnlinkFree(dd, he) ==
    IF he = << >> THEN dd
    ELSE With(dictShrinkIfAutoResizeAllowed(
                  [dd EXCEPT !.ht_used[he[1]] = @ - 1,
                             !.ht_table[he[1]][he[2]] = UnlinkAt(@, he[3])]), LAMBDA d1 :
             [d1 EXCEPT !.pauserehash = @ - 1])

\* ------------------------------------------------------------ scan
RECURSIVE rev(_, _)
\* the value whose `bits` low bits are those of v in reverse order
rev(v, bits) ==
    IF bits = 0 THEN 0
    ELSE (v % 2) * 2 ^ (bits - 1) + rev(v \div 2, bits - 1)

\* the cursor counted up from its low bits: v = (v & m) + 1, cut to the mask
NextCursor_LowBitsFirst(v, m) == (BitAnd(v, m) + 1) % (m + 1)

\* v |= ~m; v = rev(v); v++; v = rev(v), on cursors of CursorBits bits
NextCursor(v, m) ==
    With(BitAnd(v, m) + (2 ^ CursorBits - 1 - m), LAMBDA masked :
    With((rev(masked, CursorBits) + 1) % 2 ^ CursorBits, LAMBDA incremented :
        rev(incremented, CursorBits)))

\* the keys the callback receives for one bucket, in chain order
ScanBucket(chain) == [i \in 1..Len(Walk(chain)) |-> Walk(chain)[i].key]

\* the loop over the larger table that visits one bucket only, the one at the
\* cursor
ScanLarger_OneBucket(dd, htidx1, m0, m1, v, emitted) ==
    [v |-> NextCursor(v, m0),
     emitted |-> emitted \o ScanBucket(dd.ht_table[htidx1][BitAnd(v, m1)])]

RECURSIVE ScanLarger(_, _, _, _, _, _)
\* the do-while loop over the buckets of the larger table that expand the
\* bucket of the smaller table the cursor points to; emitted is what the
\* callback has received so far
ScanLarger(dd, htidx1, m0, m1, v, emitted) ==
    With(NextCursor(v, m1), LAMBDA next :
    With(emitted \o ScanBucket(dd.ht_table[htidx1][BitAnd(v, m1)]), LAMBDA all :
        IF BitAnd(next, m1) \div (m0 + 1) # 0
        THEN ScanLarger(dd, htidx1, m0, m1, next, all)
        ELSE [v |-> next, emitted |-> all]))

\* ret is the cursor returned, emitted the keys passed to the callback in the
\* order of the calls; rehashing is paused during the call and resumed at
\* its end
dictScan(dd, v) ==
    IF dictSize(dd) = 0 THEN [d |-> dd, ret |-> 0, emitted |-> << >>]
    ELSE IF ~dictIsRehashing(dd)
    THEN With(DICTHT_SIZE_MASK(dd.ht_size_exp[0]), LAMBDA m0 :
             [d |-> dd,
              ret |-> NextCursor(v, m0),
              emitted |-> ScanBucket(dd.ht_table[0][BitAnd(v, m0)])])
    ELSE With(IF DICTHT_SIZE(dd.ht_size_exp[0]) > DICTHT_SIZE(dd.ht_size_exp[1]) THEN 1 ELSE 0,
              LAMBDA htidx0 :
         With(ScanLarger(dd, 1 - htidx0,
                         DICTHT_SIZE_MASK(dd.ht_size_exp[htidx0]),
                         DICTHT_SIZE_MASK(dd.ht_size_exp[1 - htidx0]), v,
                         ScanBucket(dd.ht_table[htidx0]
                                        [BitAnd(v, DICTHT_SIZE_MASK(dd.ht_size_exp[htidx0]))])),
              LAMBDA larger :
             [d |-> dd, ret |-> larger.v, emitted |-> larger.emitted]))

\* ------------------------------------------------------------ actions
\* every call starts with the migrations and the callbacks of the previous call cleared
Begin == [d EXCEPT !.moved = {}, !.fired = << >>]

Running == d.fault = "none"

\* the record of a call, its name and its return value; kept only in the runs
\* that start with call recording on
Untraced == [op |-> "untraced", ret |-> 0]

\* the reference map, a function from the keys present to their values
EmptyMap == [k \in {} |-> NoVal]

Present == DOMAIN ref

Put(m, k, v) == [x \in DOMAIN m \cup {k} |-> IF x = k THEN v ELSE m[x]]

Remove(m, k) == [x \in DOMAIN m \ {k} |-> m[x]]

Call(op, ret) == IF last = Untraced THEN Untraced ELSE [op |-> op, ret |-> ret]

\* the end of a call: the container as the call left it, and the call recorded
Return(r, op) == d' = r.d /\ last' = Call(op, r.ret)

\* the same for a call that returns an entry or NULL
ReturnEntry(r, op) == d' = r.d /\ last' = Call(op, IF r.ret = << >> THEN 0 ELSE 1)

Init ==
    /\ d = dictInit
    /\ type \in DictTypes
    /\ dict_can_resize = "enable"
    /\ ref = EmptyMap
    /\ last = Untraced

Add(k, v) ==
    /\ Running
    /\ Return(dictAdd(Begin, k, v), "add")
    /\ ref' = IF k \in Present THEN ref
              ELSE Put(ref, k, IF type.no_value THEN NoVal ELSE v)
    /\ UNCHANGED <<type, dict_can_resize>>

\* dictReplace sets a value, which entries of a no_value type do not have
Replace(k, v) ==
    /\ Running
    /\ ~type.no_value
    /\ Return(dictReplace(Begin, k, v), "replace")
    /\ ref' = Put(ref, k, v)
    /\ UNCHANGED <<type, dict_can_resize>>

AddOrFind(k) ==
    /\ Running
    /\ ReturnEntry(dictAddOrFind(Begin, k), "addorfind")
    /\ ref' = IF k \in Present THEN ref ELSE Put(ref, k, NoVal)
    /\ UNCHANGED <<type, dict_can_resize>>

Delete(k) ==
    /\ Running
    /\ Return(dictDelete(Begin, k), "delete")
    /\ ref' = Remove(ref, k)
    /\ UNCHANGED <<type, dict_can_resize>>

\* dictUnlink followed by the caller's dictFreeUnlinkedEntry
Unlink(k) ==
    /\ Running
    /\ ReturnEntry(dictUnlink(Begin, k), "unlink")
    /\ ref' = Remove(ref, k)
    /\ UNCHANGED <<type, dict_can_resize>>

Find(k) ==
    /\ Running
    /\ ReturnEntry(dictFind(Begin, k), "find")
    /\ UNCHANGED <<type, dict_can_resize, ref>>

Expand(size) ==
    /\ Running
    /\ Return(dictExpand(Begin, size), "expand")
    /\ UNCHANGED <<type, dict_can_resize, ref>>

TryExpand(size, malloc_fails) ==
    /\ Running
    /\ Return(dictTryExpand(Begin, size, malloc_fails), "tryexpand")
    /\ UNCHANGED <<type, dict_can_resize, ref>>

Shrink(size) ==
    /\ Running
    /\ Return(dictShrink(Begin, size), "shrink")
    /\ UNCHANGED <<type, dict_can_resize, ref>>

Rehash(n) ==
    /\ Running
    /\ Return(dictRehash(Begin, n), "rehash")
    /\ UNCHANGED <<type, dict_can_resize, ref>>

RECURSIVE RehashBatches(_, _, _)
\* the loop of dictRehashMicroseconds; the time budget runs out after
\* `batches` further calls of dictRehash(d, 100)
RehashBatches(dd, batches, rehashes) ==
    With(dictRehash(dd, 100), LAMBDA r :
        IF r.ret = 0 \/ r.d.fault # "none" THEN [d |-> r.d, ret |-> rehashes]
        ELSE IF batches = 1 THEN [d |-> r.d, ret |-> rehashes + 100]
        ELSE RehashBatches(r.d, batches - 1, rehashes + 100))

dictRehashMicroseconds(dd, batches) ==
    IF dd.pauserehash > 0 THEN [d |-> dd, ret |-> 0]
    ELSE RehashBatches(dd, batches, 0)

RehashMicroseconds(batches) ==
    /\ Running
    /\ Return(dictRehashMicroseconds(Begin, batches), "rehashmicroseconds")
    /\ UNCHANGED <<type, dict_can_resize, ref>>

PauseRehashing ==
    /\ Running
    /\ d.pauserehash < MaxPause
    /\ d' = [Begin EXCEPT !.pauserehash = @ + 1]
    /\ last' = Call("pauserehash", 0)
    /\ UNCHANGED <<type, dict_can_resize, ref>>

\* issued by the holder of an earlier dictPauseRehashing
ResumeRehashing ==
    /\ Running
    /\ d.pauserehash > 0
    /\ d' = [Begin EXCEPT !.pauserehash = @ - 1]
    /\ last' = Call("resumerehash", 0)
    /\ UNCHANGED <<type, dict_can_resize, ref>>

PauseAutoResize ==
    /\ Running
    /\ d.pauseAutoResize < MaxPause
    /\ d' = [Begin EXCEPT !.pauseAutoResize = @ + 1]
    /\ last' = Call("pauseautoresize", 0)
    /\ UNCHANGED <<type, dict_can_resize, ref>>

ResumeAutoResize ==
    /\ Running
    /\ d.pauseAutoResize > 0
    /\ d' = [Begin EXCEPT !.pauseAutoResize = @ - 1]
    /\ last' = Call("resumeautoresize", 0)
    /\ UNCHANGED <<type, dict_can_resize, ref>>

SetResizeEnabled(enable) ==
    /\ Running
    /\ dict_can_resize # enable
    /\ dict_can_resize' = enable
    /\ d' = Begin
    /\ last' = Call("setresize", 0)
    /\ UNCHANGED <<type, ref>>

NextOver(sizes) ==
    \/ \E k \in Keys, v \in Vals : Add(k, v)
    \/ \E k \in Keys, v \in Vals : Replace(k, v)
    \/ \E k \in Keys : AddOrFind(k)
    \/ \E k \in Keys : Delete(k)
    \/ \E k \in Keys : Unlink(k)
    \/ \E k \in Keys : Find(k)
    \/ \E size \in sizes : Expand(size)
    \/ \E size \in sizes, f \in BOOLEAN : TryExpand(size, f)
    \/ \E size \in sizes : Shrink(size)
    \/ \E n \in RehashSteps : Rehash(n)
    \/ \E b \in 1..MaxBatches : RehashMicroseconds(b)
    \/ PauseRehashing
    \/ ResumeRehashing
    \/ \E e \in {"enable", "avoid", "forbid"} : SetResizeEnabled(e)

Next == NextOver(ResizeSizes)

Spec == Init /\ [][Next]_vars

\* the same container and calls with call recording on
InitCalls ==
    /\ d = dictInit
    /\ type = DefaultType
    /\ dict_can_resize = "enable"
    /\ ref = EmptyMap
    /\ last = [op |-> "create", ret |-> 0]

NextCalls == NextOver(CallSizes)

SpecCalls == InitCalls /\ [][NextCalls]_vars

\* pairwise-distinct keys added to an empty container, the global resize
\* state being any of the three
AddNew(k, v) == k \notin Present /\ Add(k, v)

InitAdds ==
    /\ d = dictInit
    /\ type \in DictTypes
    /\ dict_can_resize \in {"enable", "avoid", "forbid"}
    /\ ref = EmptyMap
    /\ last = [op |-> "create", ret |-> 0]

NextAdds == \E k \in FillKeys, v \in Vals : AddNew(k, v)

SpecAdds == InitAdds /\ [][NextAdds]_vars

\* dictTwoPhaseUnlinkFind directly followed by dictTwoPhaseUnlinkFree of the
\* entry it returned
TwoPhaseUnlink(k) ==
    /\ Running
    /\ \E f \in {dictTwoPhaseUnlinkFind(Begin, k)} :
           /\ d' = dictTwoPhaseUnlinkFree(f.d, f.ret)
           /\ last' = Call("twophaseunlink", IF f.ret = << >> THEN 0 ELSE 1)
    /\ ref' = Remove(ref, k)
    /\ UNCHANGED <<type, dict_can_resize>>

\* a container loaded with the keys 1, 2, 3, ... in this order and unloaded
\* from the last key added, of any type and under any global resize state
AddNext(v) ==
    /\ Cardinality(Present) < NumLoadKeys
    /\ Add(Cardinality(Present) + 1, v)

DeleteLast ==
    /\ Present # {}
    /\ Delete(Cardinality(Present))

InitLoad ==
    /\ d = dictInit
    /\ type \in DictTypes
    /\ dict_can_resize \in {"enable", "avoid", "forbid"}
    /\ ref = EmptyMap
    /\ last = Untraced

NextLoad ==
    \/ \E v \in Vals : AddNext(v)
    \/ DeleteLast

SpecLoad == InitLoad /\ [][NextLoad]_vars

\* the loading and unloading of a container whose type has a resizeAllowed
\* that returns 0, with explicit expansions
InitVeto ==
    /\ d = dictInit
    /\ type = [DefaultType EXCEPT !.resizeAllowed = FALSE]
    /\ dict_can_resize \in {"enable", "avoid", "forbid"}
    /\ ref = EmptyMap
    /\ last = Untraced

NextVeto ==
    \/ \E v \in Vals : AddNext(v)
    \/ DeleteLast
    \/ \E size \in CallSizes : Expand(size)

SpecVeto == InitVeto /\ [][NextVeto]_vars

\* the same loading and unloading of up to NumFillKeys keys, with automatic
\* resizing paused and resumed, two-phase unlink and explicit resizes
AddNextFill(v) ==
    /\ Cardinality(Present) < NumFillKeys
    /\ Add(Cardinality(Present) + 1, v)

TwoPhaseUnlinkLast ==
    /\ Present # {}
    /\ TwoPhaseUnlink(Cardinality(Present))

NextPause ==
    \/ \E v \in Vals : AddNextFill(v)
    \/ DeleteLast
    \/ TwoPhaseUnlinkLast
    \/ \E size \in ResizeSizes : Expand(size)
    \/ \E size \in ResizeSizes : Shrink(size)
    \/ \E n \in RehashSteps : Rehash(n)
    \/ PauseAutoResize
    \/ ResumeAutoResize
    \/ \E e \in {"enable", "avoid", "forbid"} : SetResizeEnabled(e)

SpecPause == InitLoad /\ [][NextPause]_vars

\* a table filled to load factor 1 with resize enabled, then 7/8 of its keys
\* deleted from either end of the key range, then only reads and rehash steps.
\* last.filled is the number of keys the table was filled with, 0 while
\* filling.
Filled == last.filled

Drained == Filled > 0 /\ 8 * (Filled - Cardinality(Present)) = 7 * Filled

AtLoadFactorOne ==
    /\ ~dictIsRehashing(d)
    /\ d.ht_used[0] = DICTHT_SIZE(d.ht_size_exp[0])
    /\ d.ht_used[0] % 8 = 0

FillNext(v) ==
    /\ Running
    /\ Filled = 0
    /\ Cardinality(Present) < NumDrainKeys
    /\ \E r \in {dictAdd(Begin, Cardinality(Present) + 1, v)} :
           /\ d' = r.d
           /\ last' = [op |-> "add", ret |-> r.ret, filled |-> 0]
    /\ ref' = Put(ref, Cardinality(Present) + 1, v)
    /\ UNCHANGED <<type, dict_can_resize>>

Drain(k) ==
    /\ Running
    /\ k \in Present
    /\ IF Filled = 0 THEN AtLoadFactorOne ELSE ~Drained
    /\ \E r \in {dictDelete(Begin, k)} :
           /\ d' = r.d
           /\ last' = [op |-> "delete", ret |-> r.ret,
                       filled |-> IF Filled = 0 THEN dictSize(d) ELSE Filled]
    /\ ref' = Remove(ref, k)
    /\ UNCHANGED <<type, dict_can_resize>>

\* the lowest and the highest key present
FirstKey == CHOOSE k \in Present : \A j \in Present : k <= j

LastKey == CHOOSE k \in Present : \A j \in Present : k >= j

DrainFirst == Present # {} /\ Drain(FirstKey)

DrainLast == Present # {} /\ Drain(LastKey)

SettleFind(k) ==
    /\ Running
    /\ Drained
    /\ \E r \in {dictFind(Begin, k)} :
           /\ d' = r.d
           /\ last' = [op |-> "find", ret |-> IF r.ret = << >> THEN 0 ELSE 1, filled |-> Filled]
    /\ UNCHANGED <<type, dict_can_resize, ref>>

SettleFindFirst == Present # {} /\ SettleFind(FirstKey)

SettleFindLast == Present # {} /\ SettleFind(LastKey)

SettleRehash(n) ==
    /\ Running
    /\ Drained
    /\ \E r \in {dictRehash(Begin, n)} :
           /\ d' = r.d
           /\ last' = [op |-> "rehash", ret |-> r.ret, filled |-> Filled]
    /\ UNCHANGED <<type, dict_can_resize, ref>>

InitDrain ==
    /\ d = dictInit
    /\ type \in {t \in DictTypes : t.resizeAllowed}
    /\ dict_can_resize = "enable"
    /\ ref = EmptyMap
    /\ last = [op |-> "create", ret |-> 0, filled |-> 0]

NextDrain ==
    \/ \E v \in Vals : FillNext(v)
    \/ DrainFirst
    \/ DrainLast
    \/ SettleFindFirst
    \/ SettleFindLast
    \/ \E n \in RehashSteps : SettleRehash(n)

SpecDrain == InitDrain /\ [][NextDrain]_vars

\* a fresh container, resize enabled, nothing paused: distinct keys inserted
\* until the automatic expansion of the initial-size table is triggered, then
\* initial-size further mutations.  last.triggered says that the expansion
\* has been triggered, last.since counts the mutations made since.
GrowKeys == 1..NumGrowKeys

InFirstRehash(dd) ==
    /\ dictIsRehashing(dd)
    /\ dd.ht_size_exp[0] = DICT_HT_INITIAL_EXP
    /\ dd.ht_size_exp[1] = DICT_HT_INITIAL_EXP + 1

\* the end of a mutation of these runs
Mutated(r, op) ==
    /\ d' = r.d
    /\ last' = [op |-> op, ret |-> r.ret,
                triggered |-> last.triggered \/ r.d.ht_size_exp[0] > DICT_HT_INITIAL_EXP
                                             \/ r.d.ht_size_exp[1] > DICT_HT_INITIAL_EXP,
                since |-> IF last.triggered THEN last.since + 1 ELSE 0]

GrowInsert(k, v) ==
    /\ Running
    /\ ~last.triggered
    /\ \A j \in Present : j < k
    /\ Mutated(dictAdd(Begin, k, v), "add")
    /\ ref' = Put(ref, k, v)
    /\ UNCHANGED <<type, dict_can_resize>>

ThenAdd(k, v) ==
    /\ Running
    /\ last.triggered
    /\ last.since < DICT_HT_INITIAL_SIZE
    /\ Mutated(dictAdd(Begin, k, v), "add")
    /\ ref' = IF k \in Present THEN ref ELSE Put(ref, k, v)
    /\ UNCHANGED <<type, dict_can_resize>>

ThenReplace(k, v) ==
    /\ Running
    /\ last.triggered
    /\ last.since < DICT_HT_INITIAL_SIZE
    /\ Mutated(dictReplace(Begin, k, v), "replace")
    /\ ref' = Put(ref, k, v)
    /\ UNCHANGED <<type, dict_can_resize>>

ThenDelete(k) ==
    /\ Running
    /\ last.triggered
    /\ last.since < DICT_HT_INITIAL_SIZE
    /\ Mutated(dictDelete(Begin, k), "delete")
    /\ ref' = Remove(ref, k)
    /\ UNCHANGED <<type, dict_can_resize>>

InitGrow ==
    /\ d = dictInit
    /\ type \in {t \in DictTypes : t.resizeAllowed /\ ~t.no_value}
    /\ dict_can_resize = "enable"
    /\ ref = EmptyMap
    /\ last = [op |-> "create", ret |-> 0, triggered |-> FALSE, since |-> 0]

NextGrow ==
    \/ \E k \in GrowKeys, v \in Vals : GrowInsert(k, v)
    \/ \E k \in GrowKeys, v \in Vals : ThenAdd(k, v)
    \/ \E k \in GrowKeys, v \in Vals : ThenReplace(k, v)
    \/ \E k \in GrowKeys : ThenDelete(k)

SpecGrow == InitGrow /\ [][NextGrow]_vars

\* scans: last holds the cursor the caller passes to the next dictScan, whether
\* a scan is under way (a call returned a cursor other than 0), whether the
\* last call ended one, the keys the callback has received in this scan, as a
\* set and, where recorded, in the order of the calls, and the keys present
\* from the first call of this scan on
ScanIdle ==
    [cursor |-> 0, scanning |-> FALSE, done |-> FALSE, seen |-> {}, trace |-> << >>, stable |-> {}]

ScanSizes == {3, 8, 16}

\* what the caller holds after a dictScan call that returned r
AfterScan(r, traced) ==
    [cursor |-> r.ret,
     scanning |-> r.ret # 0,
     done |-> r.ret = 0,
     seen |-> (IF last.scanning THEN last.seen ELSE {})
                  \cup {r.emitted[i] : i \in DOMAIN r.emitted},
     trace |-> IF traced
               THEN (IF last.scanning THEN last.trace ELSE << >>) \o r.emitted
               ELSE << >>,
     stable |-> IF last.scanning THEN last.stable ELSE Present]

\* one dictScan call with the cursor the previous call returned, 0 to start
ScanCall(traced) ==
    /\ Running
    /\ d' = dictScan(Begin, last.cursor).d
    /\ last' = AfterScan(dictScan(Begin, last.cursor), traced)
    /\ UNCHANGED <<type, dict_can_resize, ref>>

\* the end of a call made between two dictScan calls, or outside a scan
BetweenScans(r, removed) ==
    /\ d' = r.d
    /\ last' = IF last.scanning THEN [last EXCEPT !.stable = @ \ removed] ELSE ScanIdle

ScanAdd(k, v) ==
    /\ Running
    /\ BetweenScans(dictAdd(Begin, k, v), {})
    /\ ref' = IF k \in Present THEN ref
              ELSE Put(ref, k, IF type.no_value THEN NoVal ELSE v)
    /\ UNCHANGED <<type, dict_can_resize>>

ScanDelete(k) ==
    /\ Running
    /\ BetweenScans(dictDelete(Begin, k), {k})
    /\ ref' = Remove(ref, k)
    /\ UNCHANGED <<type, dict_can_resize>>

ScanExpand(size) ==
    /\ Running
    /\ BetweenScans(dictExpand(Begin, size), {})
    /\ UNCHANGED <<type, dict_can_resize, ref>>

ScanShrink(size) ==
    /\ Running
    /\ BetweenScans(dictShrink(Begin, size), {})
    /\ UNCHANGED <<type, dict_can_resize, ref>>

ScanRehash(n) ==
    /\ Running
    /\ BetweenScans(dictRehash(Begin, n), {})
    /\ UNCHANGED <<type, dict_can_resize, ref>>

InitScan ==
    /\ d = dictInit
    /\ type \in DictTypes
    /\ dict_can_resize \in {"enable", "avoid", "forbid"}
    /\ ref = EmptyMap
    /\ last = ScanIdle

InitScanBetween ==
    /\ d = dictInit
    /\ type \in DictTypes
    /\ dict_can_resize = "enable"
    /\ ref = EmptyMap
    /\ last = ScanIdle

\* scans interleaved with inserts, deletes, rehash steps and resizes
NextScan ==
    \/ ScanCall(FALSE)
    \/ \E k \in Keys, v \in Vals : ScanAdd(k, v)
    \/ \E k \in Keys : ScanDelete(k)
    \/ \E size \in ScanSizes : ScanExpand(size)
    \/ \E size \in ScanSizes : ScanShrink(size)
    \/ \E n \in RehashSteps : ScanRehash(n)

SpecScan == InitScanBetween /\ [][NextScan]_vars

\* scans during which the container is not touched: the keys 1, 2, 3, ... are
\* added and deleted and the tables resized outside scans only.  A caller that
\* has started a scan goes on calling until the cursor returned is 0.
ScanAddNext(v) ==
    /\ ~last.scanning
    /\ Cardinality(Present) < NumFillKeys
    /\ ScanAdd(Cardinality(Present) + 1, v)

ScanDeleteLast ==
    /\ ~last.scanning
    /\ Present # {}
    /\ ScanDelete(Cardinality(Present))

ScanCallTraced == ScanCall(TRUE)

NextScanOnce ==
    \/ ScanCallTraced
    \/ \E v \in Vals : ScanAddNext(v)
    \/ ScanDeleteLast
    \/ \E size \in ScanSizes : ~last.scanning /\ ScanExpand(size)
    \/ \E size \in ScanSizes : ~last.scanning /\ ScanShrink(size)
    \/ \E n \in RehashSteps : ~last.scanning /\ ScanRehash(n)

SpecScanOnce == InitScan /\ [][NextScanOnce]_vars /\ WF_vars(ScanCallTraced)

\* ------------------------------------------------------------ observations
Buckets(dd, t) == DOMAIN dd.ht_table[t]

\* <<bucket index, position in the chain>> of every entry a chain walk reaches
LinkedIn(dd, t) ==
    UNION {{<<i, p>> : p \in 1..Len(Walk(dd.ht_table[t][i]))} : i \in Buckets(dd, t)}

EntryAt(dd, t, ip) == dd.ht_table[t][ip[1]][ip[2]]

\* the entries a walk of the chains of table t reaches
EntriesIn(dd, t) ==
    UNION {LET w == Walk(dd.ht_table[t][i]) IN {w[p] : p \in 1..Len(w)} : i \in Buckets(dd, t)}

KeysIn(dd, t) == {e.key : e \in EntriesIn(dd, t)}

\* ------------------------------------------------------------ properties

\* C1: pairwise-distinct keys added to an empty container: every add succeeds,
\* a find of each inserted key returns an entry holding that key, and dictSize
\* equals the number of adds.
C1_DistinctAdds ==
    /\ last.op = "add" => last.ret = DICT_OK
    /\ \A k \in Present :
           LET r == dictFind(d, k) IN r.ret # << >> /\ r.ret[1].key = k
    /\ dictSize(d) = Cardinality(Present)

\* all the keys are in, some still in T[0] and some already in T[1]
C1_Witness ==
    /\ last.op = "add"
    /\ Cardinality(Present) = NumFillKeys
    /\ dictIsRehashing(d)
    /\ d.ht_used[0] > 0
    /\ d.ht_used[1] > 0

\* C2: the container behaves like the reference map: find(k) returns an entry
\* iff k is in the reference map, and that entry holds k and the value last
\* written for k, also while a rehash is in progress or paused.
C2_RefinesMap ==
    \A k \in Keys :
        LET r == dictFind(d, k)
        IN /\ (r.ret # << >>) <=> (k \in Present)
           /\ r.ret # << >> => (r.ret[1].key = k /\ r.ret[1].val = ref[k])

\* a paused rehash with keys on both sides
C2_Witness ==
    /\ dictIsRehashing(d)
    /\ d.pauserehash > 0
    /\ KeysIn(d, 0) # {}
    /\ KeysIn(d, 1) # {}
    /\ \E k \in Present : ref[k] \in Vals

\* C3: used[0] + used[1] equals the number of entries linked in the two
\* tables, which equals the number of logically present keys.
C3_UsedCounts ==
    /\ dictSize(d) = Cardinality(LinkedIn(d, 0)) + Cardinality(LinkedIn(d, 1))
    /\ dictSize(d) = Cardinality(Present)

\* a rehash in progress that has moved entries, one key deleted since
C3_Witness ==
    /\ dictIsRehashing(d)
    /\ d.ht_used[0] > 0
    /\ d.ht_used[1] > 0
    /\ Cardinality(Present) < NumKeys

\* C4: no two entries of the container, in the same table or one in each,
\* have keys that compare equal.
C4_NoDuplicateKeys ==
    /\ \A t \in 0..1 : \A a, b \in LinkedIn(d, t) :
           a # b => EntryAt(d, t, a).key # EntryAt(d, t, b).key
    /\ KeysIn(d, 0) \cap KeysIn(d, 1) = {}

\* every key is in, spread over the two tables of a rehash
C4_Witness ==
    /\ dictIsRehashing(d)
    /\ KeysIn(d, 0) # {}
    /\ KeysIn(d, 1) # {}
    /\ KeysIn(d, 0) \cup KeysIn(d, 1) = Keys

\* the <<key, value>> pairs the container holds
Contents(dd) == {<<e.key, e.val>> : e \in EntriesIn(dd, 0) \cup EntriesIn(dd, 1)}

\* C5: adding a key that is already present fails (dictAdd returns DICT_ERR,
\* dictAddRaw returns NULL and reports the existing entry, dictAddOrFind returns
\* the existing entry) and leaves the stored values, the key set and dictSize
\* unchanged, whatever state the call is made in.
C5_AddPresentFails ==
    \A k \in Keys :
        k \in Present =>
            /\ \A v \in Vals :
                   LET r == dictAdd(Begin, k, v)
                   IN /\ r.ret = DICT_ERR
                      /\ Contents(r.d) = Contents(d)
                      /\ dictSize(r.d) = dictSize(d)
            /\ LET r == dictAddRaw(Begin, k)
               IN /\ r.entry = << >>
                  /\ r.existing # << >>
                  /\ Walk(r.d.ht_table[r.existing[1]][r.existing[2]])[r.existing[3]].key = k
            /\ LET r == dictAddOrFind(Begin, k)
               IN /\ r.ret # << >>
                  /\ Walk(r.d.ht_table[r.ret[1]][r.ret[2]])[r.ret[3]].key = k
                  /\ Contents(r.d) = Contents(d)
                  /\ dictSize(r.d) = dictSize(d)

\* a failed dictAdd on a container that holds a key, which did rehash work
C5_Witness ==
    /\ last.op = "add"
    /\ last.ret = DICT_ERR
    /\ dictSize(d) > 0
    /\ d.moved # {}

\* C6: when the container is not rehashing, T[1] is absent (null table,
\* exponent -1, used[1] = 0) and the rehash cursor is -1.
C6_NoRehashNoT1 ==
    ~dictIsRehashing(d) =>
        /\ d.ht_table[1] = NullTable
        /\ d.ht_size_exp[1] = -1
        /\ d.ht_used[1] = 0
        /\ d.rehashidx = -1

\* the last call moved entries and completed the rehash
C6_Witness ==
    /\ ~dictIsRehashing(d)
    /\ d.moved # {}
    /\ d.ht_used[0] > 0

\* C7: when the container is rehashing, both bucket arrays exist, the cursor
\* lies in [0, |T[0]|), and every bucket of T[0] below the cursor is empty.
C7_CursorInvariant ==
    dictIsRehashing(d) =>
        /\ \A t \in 0..1 :
               /\ d.ht_size_exp[t] # -1
               /\ Buckets(d, t) = 0..(DICTHT_SIZE(d.ht_size_exp[t]) - 1)
        /\ d.rehashidx >= 0
        /\ d.rehashidx < DICTHT_SIZE(d.ht_size_exp[0])
        /\ \A i \in 0..(d.rehashidx - 1) : d.ht_table[0][i] = << >>

\* a paused rehash whose cursor has advanced, entries still waiting in T[0]
C7_Witness ==
    /\ dictIsRehashing(d)
    /\ d.rehashidx > 0
    /\ d.pauserehash > 0
    /\ d.ht_used[0] > 0
    /\ d.ht_used[1] > 0

\* C8: every entry linked in bucket i of table t has a key with
\* hash(key) & (|T[t]| - 1) = i, also after migration during a shrink.
C8_BucketOfHash ==
    \A t \in 0..1 : \A ip \in LinkedIn(d, t) :
        BitAnd(dictHashKey(EntryAt(d, t, ip).key), DICTHT_SIZE_MASK(d.ht_size_exp[t])) = ip[1]

\* the last call moved entries from a larger T[0] to a smaller T[1], where
\* they share buckets
C8_Witness ==
    /\ dictIsRehashing(d)
    /\ d.ht_size_exp[1] < d.ht_size_exp[0]
    /\ d.moved # {}
    /\ \E i \in Buckets(d, 1) : Len(d.ht_table[1][i]) > 1
    /\ d.ht_used[0] > 0

\* C9: while pauserehash > 0 no call moves an entry from T[0] to T[1] or
\* completes a rehash.
C9_PausedNoMigration ==
    [][d.pauserehash > 0 =>
          /\ d'.moved = {}
          /\ dictIsRehashing(d) => dictIsRehashing(d')]_vars

\* the sizes of the tables a migration went from and to
MovedFrom(m) == DICTHT_SIZE(m[1])

MovedTo(m) == DICTHT_SIZE(m[2])

\* C10 as stated: under forbid no rehash step migrates an entry; under avoid a
\* step migrates entries only when the ratio between the two table sizes
\* exceeds force-ratio.
C10_RatioExceedsForceRatio ==
    /\ dict_can_resize = "forbid" => d.moved = {}
    /\ dict_can_resize = "avoid" =>
           \A m \in d.moved :
               \/ MovedTo(m) > dict_force_resize_ratio * MovedFrom(m)
               \/ MovedFrom(m) > dict_force_resize_ratio * MovedTo(m)

\* C10 amended: under forbid no rehash step migrates an entry; under avoid a
\* step migrates entries only when T[1] is at least force-ratio times the size
\* of T[0], or T[0] at least min-fill * force-ratio times the size of T[1].
C10_RehashGate ==
    /\ dict_can_resize = "forbid" => d.moved = {}
    /\ dict_can_resize = "avoid" =>
           \A m \in d.moved :
               \/ MovedTo(m) >= dict_force_resize_ratio * MovedFrom(m)
               \/ MovedFrom(m) >= HASHTABLE_MIN_FILL * dict_force_resize_ratio * MovedTo(m)

\* under avoid, a step moved entries of a shrink from 128 buckets to 4 and the
\* rehash goes on
C10_Witness ==
    /\ dict_can_resize = "avoid"
    /\ \E m \in d.moved : MovedFrom(m) = 32 * MovedTo(m)
    /\ dictIsRehashing(d)
    /\ d.ht_used[0] > 0

\* the container at the point where dictFindPositionForInsert makes the
\* expansion check: after the rehash work on access
InsertCheckpoint(dd, key) ==
    RehashOnAccess(dd, BitAnd(dictHashKey(key), DICTHT_SIZE_MASK(dd.ht_size_exp[0])))

\* the container at the point where dictGenericDelete looks for the key
DeleteCheckpoint(dd, key) ==
    IF dictSize(dd) = 0 THEN dd
    ELSE RehashOnAccess(dd, BitAnd(dictHashKey(key), DICTHT_SIZE_MASK(dd.ht_size_exp[0])))

\* a resize happened between two states of the container: a new T[1] was
\* allocated, or T[0] was replaced
ResizeStarted(before, after) == after.ht_size_exp # before.ht_size_exp

\* used[0] / |T[0]| >= num / den
LoadFactorAtLeast(dd, num, den) ==
    dd.ht_used[0] * den >= num * DICTHT_SIZE(dd.ht_size_exp[0])

\* C11: the expansion check of an insert starts an expansion exactly when the
\* load factor used[0] / |T[0]| has reached 1 under enable, 4 under avoid, and
\* never under forbid, for an allocated table that is not rehashing and a type
\* that does not veto; an insert into a container without a table allocates
\* the initial-size table.
C11_ExpandThresholds ==
    Running =>
        \A k \in LoadKeys :
            LET c == InsertCheckpoint(Begin, k)
                r == dictFindPositionForInsert(Begin, k).d
            IN IF DICTHT_SIZE(c.ht_size_exp[0]) = 0
               THEN /\ r.ht_size_exp[0] = DICT_HT_INITIAL_EXP
                    /\ Buckets(r, 0) = 0..(DICT_HT_INITIAL_SIZE - 1)
                    /\ ~dictIsRehashing(r)
               ELSE /\ dictIsRehashing(c) => ~ResizeStarted(c, r)
                    /\ (~dictIsRehashing(c) /\ type.resizeAllowed) =>
                           /\ ResizeStarted(c, r) <=>
                                  \/ dict_can_resize = "enable" /\ LoadFactorAtLeast(c, 1, 1)
                                  \/ dict_can_resize = "avoid" /\ LoadFactorAtLeast(c, 4, 1)
                           /\ ResizeStarted(c, r) =>
                                  r.ht_size_exp[IF dictIsRehashing(r) THEN 1 ELSE 0]
                                      = dictNextExp(c.ht_used[0] + 1)

\* under avoid, the add made at load factor 4 has started the expansion of the
\* initial-size table
C11_Witness ==
    /\ dict_can_resize = "avoid"
    /\ dictIsRehashing(d)
    /\ d.ht_size_exp[0] = DICT_HT_INITIAL_EXP
    /\ d.ht_used[0] = dict_force_resize_ratio * DICT_HT_INITIAL_SIZE
    /\ d.ht_used[1] = 1

\* used[0] / |T[0]| < num / den, used being the count after the delete
LoadFactorBelow(used, dd, num, den) ==
    used * den < num * DICTHT_SIZE(dd.ht_size_exp[0])

\* used[0] / |T[0]| <= num / den
LoadFactorAtMost(used, dd, num, den) ==
    used * den <= num * DICTHT_SIZE(dd.ht_size_exp[0])

\* the delete of a present key from a container that is not rehashing when
\* the key is looked for, of a type that does not veto, automatic resizing
\* not paused: DueOf(used, c) says whether a shrink is due
ShrinkOnDelete(DueOf(_, _)) ==
    Running =>
        \A k \in Present :
            LET c == DeleteCheckpoint(Begin, k)
                r == dictDelete(Begin, k).d
            IN /\ dictIsRehashing(c) => ~ResizeStarted(c, r)
               /\ (~dictIsRehashing(c) /\ type.resizeAllowed /\ c.pauseAutoResize = 0) =>
                      /\ ResizeStarted(c, r) <=>
                             /\ DICTHT_SIZE(c.ht_size_exp[0]) > DICT_HT_INITIAL_SIZE
                             /\ DueOf(c.ht_used[0] - 1, c)
                      /\ ResizeStarted(c, r) =>
                             /\ r.ht_size_exp[IF dictIsRehashing(r) THEN 1 ELSE 0]
                                    = dictNextExp(c.ht_used[0] - 1)
                             /\ dictNextExp(c.ht_used[0] - 1) >= DICT_HT_INITIAL_EXP

SmallestPowerOfTwo(n) ==
    CHOOSE p \in {2 ^ e : e \in 0..MaxExp} :
        /\ p >= n
        /\ p >= DICT_HT_INITIAL_SIZE
        /\ \A q \in {2 ^ e : e \in 0..MaxExp} :
               (q >= n /\ q >= DICT_HT_INITIAL_SIZE) => p <= q

\* C13: a table filled to load factor 1, resize enabled: the delete that
\* completes 7/8 of the keys starts a shrink (none starts before), the new
\* table has the smallest power of two of buckets that is >= the remaining key
\* count and >= the initial size, and once the rehash has completed that is
\* |T[0]|.
C13_DrainShrinks ==
    Running /\ Filled > 0 =>
        IF ~Drained
        THEN ~dictIsRehashing(d) /\ DICTHT_SIZE(d.ht_size_exp[0]) = Filled
        ELSE /\ last.op = "delete" /\ ~type.no_incremental_rehash => dictIsRehashing(d)
             /\ IF dictIsRehashing(d)
                THEN /\ DICTHT_SIZE(d.ht_size_exp[0]) = Filled
                     /\ DICTHT_SIZE(d.ht_size_exp[1]) = SmallestPowerOfTwo(dictSize(d))
                ELSE /\ DICTHT_SIZE(d.ht_size_exp[0]) = SmallestPowerOfTwo(dictSize(d))
                     /\ d.ht_table[1] = NullTable

\* 64 keys in 64 buckets, 56 deleted: the shrink has completed after some
\* reads or rehash steps and T[0] has 8 buckets
C13_Witness ==
    /\ Drained
    /\ last.op \in {"find", "rehash"}
    /\ ~dictIsRehashing(d)
    /\ d.moved # {}
    /\ DICTHT_SIZE(d.ht_size_exp[0]) > DICT_HT_INITIAL_SIZE
    /\ Filled = 8 * DICTHT_SIZE(d.ht_size_exp[0])

\* add, find and delete of key k return what the reference map says, and
\* leave the key present, respectively absent
CorrectResults(k) ==
    /\ \A v \in Vals :
           LET a == dictAdd(Begin, k, v)
               f == dictFind(a.d, k)
           IN /\ a.ret = IF k \in Present THEN DICT_ERR ELSE DICT_OK
              /\ f.ret # << >>
              /\ f.ret[1].key = k
              /\ f.ret[1].val = IF k \in Present THEN ref[k] ELSE v
              /\ dictSize(a.d) = Cardinality(Present \cup {k})
    /\ LET f == dictFind(Begin, k)
       IN /\ (f.ret # << >>) <=> (k \in Present)
          /\ f.ret # << >> => (f.ret[1].key = k /\ f.ret[1].val = ref[k])
    /\ LET r == dictDelete(Begin, k)
       IN /\ r.ret = IF k \in Present THEN DICT_OK ELSE DICT_ERR
          /\ dictFind(r.d, k).ret = << >>
          /\ dictSize(r.d) = Cardinality(Present \ {k})

\* no add or delete of key k resizes the container, when Applies holds of the
\* container at the resize check of the add
NoAutoResize(k, Applies(_)) ==
    /\ \A v \in Vals :
           Applies(InsertCheckpoint(Begin, k)) =>
               ~ResizeStarted(InsertCheckpoint(Begin, k), dictAdd(Begin, k, v).d)
    /\ ~ResizeStarted(DeleteCheckpoint(Begin, k), dictDelete(Begin, k).d)

\* C14 as stated: when the type's resize_allowed returns false, no add or
\* delete changes a table size or starts a rehash, in any case, and add, find
\* and delete return correct results.
C14_VetoInAnyCase ==
    (Running /\ ~type.resizeAllowed) =>
        \A k \in LoadKeys :
            /\ NoAutoResize(k, LAMBDA c : TRUE)
            /\ CorrectResults(k)

\* C14 amended: when the type's resize_allowed returns false, no add or delete
\* changes the size of an allocated table or starts a rehash, however high the
\* load factor, and add, find and delete return correct results; the insert
\* into a container without a table still allocates the initial-size table.
C14_VetoOnceAllocated ==
    (Running /\ ~type.resizeAllowed) =>
        \A k \in LoadKeys :
            /\ NoAutoResize(k, LAMBDA c : c.ht_size_exp[0] # -1)
            /\ CorrectResults(k)
            /\ d.ht_size_exp[0] = -1 =>
                   \A v \in Vals :
                       dictAdd(Begin, k, v).d.ht_size_exp[0] = DICT_HT_INITIAL_EXP

\* a table of the initial size at load factor 10, resize enabled
C14_Witness ==
    /\ ~type.resizeAllowed
    /\ dict_can_resize = "enable"
    /\ ~dictIsRehashing(d)
    /\ d.ht_size_exp[0] = DICT_HT_INITIAL_EXP
    /\ LoadFactorAtLeast(d, 10, 1)

\* the size is one dictExpand accepts: larger than |T[0]| and not below used[0]
ValidExpandSize(dd, size) ==
    /\ ~dictIsRehashing(dd)
    /\ dd.ht_used[0] <= size
    /\ DICTHT_SIZE(dd.ht_size_exp[0]) < size

\* the size is one dictShrink accepts: smaller than |T[0]|, not below used[0],
\* and rounding to another power of two than |T[0]|
ValidShrinkSize(dd, size) ==
    /\ ~dictIsRehashing(dd)
    /\ dd.ht_used[0] <= size
    /\ DICTHT_SIZE(dd.ht_size_exp[0]) > size
    /\ SmallestPowerOfTwo(size) # DICTHT_SIZE(dd.ht_size_exp[0])

\* the call returned DICT_OK and gave the container a table of the smallest
\* power of two of buckets >= size: T[1] of a rehash, or T[0] at once
ResizedTo(r, size) ==
    /\ r.ret = DICT_OK
    /\ ResizeStarted(Begin, r.d)
    /\ DICTHT_SIZE(r.d.ht_size_exp[IF dictIsRehashing(r.d) THEN 1 ELSE 0])
           = SmallestPowerOfTwo(size)

\* C15: while pauseAutoResize > 0 no add, delete or two-phase unlink starts an
\* expand or a shrink, and dictExpand and dictShrink called with a valid size
\* start the resize.
C15_PausedAutoResize ==
    (Running /\ d.pauseAutoResize > 0) =>
        /\ \A k \in FillKeys :
               /\ \A v \in Vals :
                      ~ResizeStarted(InsertCheckpoint(Begin, k), dictAdd(Begin, k, v).d)
               /\ ~ResizeStarted(DeleteCheckpoint(Begin, k), dictDelete(Begin, k).d)
               /\ LET f == dictTwoPhaseUnlinkFind(Begin, k)
                  IN ~ResizeStarted(f.d, dictTwoPhaseUnlinkFree(f.d, f.ret))
        /\ \A size \in ResizeSizes :
               /\ ValidExpandSize(d, size) => ResizedTo(dictExpand(Begin, size), size)
               /\ ValidShrinkSize(d, size) => ResizedTo(dictShrink(Begin, size), size)

\* automatic resizing paused, resize enabled, a type that does not veto: the
\* initial-size table holds more entries than buckets
C15_Witness ==
    /\ d.pauseAutoResize > 0
    /\ dict_can_resize = "enable"
    /\ type.resizeAllowed
    /\ ~dictIsRehashing(d)
    /\ d.ht_size_exp[0] = DICT_HT_INITIAL_EXP
    /\ d.ht_used[0] > DICT_HT_INITIAL_SIZE

\* C16: a container whose type declares no_incremental_rehash is never left
\* rehashing by a call: every resize of a non-empty table has migrated all the
\* entries to the new T[0] when the call returns, T[1] is absent.
C16_NeverLeftRehashing ==
    type.no_incremental_rehash =>
        /\ ~dictIsRehashing(d)
        /\ d.ht_table[1] = NullTable
        /\ d.ht_used[1] = 0

CompletedFrom(dd, c) ==
    /\ ~dictIsRehashing(c)
    /\ c.rehashidx = -1
    /\ c.ht_table[0] = dd.ht_table[1]
    /\ c.ht_size_exp[0] = dd.ht_size_exp[1]
    /\ c.ht_used[0] = dd.ht_used[1]
    /\ c.ht_table[1] = NullTable
    /\ c.ht_size_exp[1] = -1
    /\ c.ht_used[1] = 0

Inserts == Cardinality(Present)

\* the container has a table of twice the initial size: T[1] of the rehash in
\* progress, or T[0]
Doubled(dd) ==
    DICTHT_SIZE(dd.ht_size_exp[IF dictIsRehashing(dd) THEN 1 ELSE 0])
        = 2 * DICT_HT_INITIAL_SIZE

\* the container has the initial-size table only
InitialOnly(dd) ==
    /\ ~dictIsRehashing(dd)
    /\ DICTHT_SIZE(dd.ht_size_exp[0]) = DICT_HT_INITIAL_SIZE

\* C18 as stated: distinct keys inserted into a fresh container, resize
\* enabled: the expansion to twice the initial size is triggered by insert
\* number initial-size, and not before.
C18_ExpandsAtInitialSize ==
    (dict_can_resize = "enable" /\ type.resizeAllowed) =>
        /\ Inserts \in 1..(DICT_HT_INITIAL_SIZE - 1) => InitialOnly(d)
        /\ Inserts = DICT_HT_INITIAL_SIZE => Doubled(d)

\* C18 amended: the expansion to twice the initial size is triggered by insert
\* number initial-size + 1, the first one made with initial-size entries in
\* the table, and not before.
C18_ExpandsAfterInitialSize ==
    (dict_can_resize = "enable" /\ type.resizeAllowed) =>
        /\ Inserts \in 1..DICT_HT_INITIAL_SIZE => InitialOnly(d)
        /\ Inserts = DICT_HT_INITIAL_SIZE + 1 =>
               /\ Doubled(d)
               /\ dictIsRehashing(d) =>
                      /\ DICTHT_SIZE(d.ht_size_exp[0]) = DICT_HT_INITIAL_SIZE
                      /\ d.ht_used[0] = DICT_HT_INITIAL_SIZE
                      /\ d.ht_used[1] = 1
                      /\ d.rehashidx = 0

\* insert number initial-size + 1 has been made: the rehash to twice the
\* initial size has started and the new entry is in T[1]
C18_Witness ==
    /\ dict_can_resize = "enable"
    /\ last.op = "add"
    /\ last.ret = DICT_OK
    /\ Inserts = DICT_HT_INITIAL_SIZE + 1
    /\ dictIsRehashing(d)
    /\ Doubled(d)
    /\ d.ht_used[1] = 1

\* C19 as stated: initial-size mutations after the automatic expansion of the
\* initial-size table was triggered, the container is not rehashing, |T[0]| is
\* twice the initial size and T[1] is absent.
C19_SettledAfterInitialSize ==
    (last.triggered /\ last.since = DICT_HT_INITIAL_SIZE) =>
        /\ ~dictIsRehashing(d)
        /\ DICTHT_SIZE(d.ht_size_exp[0]) = 2 * DICT_HT_INITIAL_SIZE
        /\ d.ht_table[1] = NullTable

\* C19 amended: initial-size mutations after the automatic expansion of the
\* initial-size table was triggered, the rehash it started has completed:
\* T[0] is no longer the initial-size array, and unless the type migrates
\* whole tables at once |T[0]| is twice the initial size; a further resize
\* may have been started by the same or a later mutation.
C19_FirstRehashCompleted ==
    (last.triggered /\ last.since = DICT_HT_INITIAL_SIZE) =>
        /\ ~InFirstRehash(d)
        /\ ~type.no_incremental_rehash =>
               DICTHT_SIZE(d.ht_size_exp[0]) = 2 * DICT_HT_INITIAL_SIZE
        /\ ~dictIsRehashing(d) => d.ht_table[1] = NullTable

\* the last of the initial-size mutations moved the last bucket and completed
\* the rehash
C19_Witness ==
    /\ last.triggered
    /\ last.since = DICT_HT_INITIAL_SIZE
    /\ d.moved = {<<DICT_HT_INITIAL_EXP, DICT_HT_INITIAL_EXP + 1>>}
    /\ ~dictIsRehashing(d)
    /\ DICTHT_SIZE(d.ht_size_exp[0]) = 2 * DICT_HT_INITIAL_SIZE

\* the values replace is tried with: those the runs write and one more
ProbeVals == 1..(MaxVal + 1)

\* C20: on every state, for every key k and value v: dictReplace(k, v)
\* returns 1 when k was absent and 0 when it was present, changes nothing but
\* the value of k, a dictFetchValue(k) after it returns v, and a second
\* dictReplace(k, v) returns 0 and leaves keys, values and size unchanged.
C20_ReplaceLaws ==
    (Running /\ ~type.no_value) =>
        \A k \in Keys, v \in ProbeVals :
            LET r1 == dictReplace(Begin, k, v)
                f == dictFetchValue(r1.d, k)
                r2 == dictReplace(r1.d, k, v)
            IN /\ r1.ret = IF k \in Present THEN 0 ELSE 1
               /\ Contents(r1.d) = {c \in Contents(d) : c[1] # k} \cup {<<k, v>>}
               /\ dictSize(r1.d) = Cardinality(Present \cup {k})
               /\ f.ret = v
               /\ r2.ret = 0
               /\ Contents(r2.d) = Contents(r1.d)
               /\ dictSize(r2.d) = dictSize(r1.d)
               /\ dictFetchValue(r2.d, k).ret = v

\* a replace of a present key that also did rehash work, the rehash going on
C20_Witness ==
    /\ last.op = "replace"
    /\ last.ret = 0
    /\ d.moved # {}
    /\ dictIsRehashing(d)
    /\ d.ht_used[0] > 0

\* what a caller can observe of the contents: the keys with their values, and
\* the size
Observable(dd) == [pairs |-> Contents(dd), size |-> dictSize(dd)]

\* C21 as stated: for every key k and values v1, v2, dictAdd(k, v1) followed by
\* dictAdd(k, v2) leaves the same keys, values and size as dictReplace(k, v2).
C21_AddAddIsReplace ==
    (Running /\ ~type.no_value) =>
        \A k \in Keys, v1 \in ProbeVals, v2 \in ProbeVals :
            Observable(dictAdd(dictAdd(Begin, k, v1).d, k, v2).d)
                = Observable(dictReplace(Begin, k, v2).d)

\* C21: for every key k and values v1, v2, the second of dictAdd(k, v1);
\* dictAdd(k, v2) fails and leaves keys, values and size as the first add left
\* them; the key set and the size are those dictReplace(k, v2) leaves, and the
\* value of k is the one stored before the adds, or v1 when k was absent, where
\* dictReplace stores v2.
C21_AddAddIsAdd ==
    (Running /\ ~type.no_value) =>
        \A k \in Keys, v1 \in ProbeVals, v2 \in ProbeVals :
            LET a1 == dictAdd(Begin, k, v1)
                a2 == dictAdd(a1.d, k, v2)
                r == dictReplace(Begin, k, v2)
                kept == IF k \in Present THEN ref[k] ELSE v1
            IN /\ a2.ret = DICT_ERR
               /\ Observable(a2.d) = Observable(a1.d)
               /\ {c[1] : c \in Contents(a2.d)} = {c[1] : c \in Contents(r.d)}
               /\ dictSize(a2.d) = dictSize(r.d)
               /\ Contents(a2.d) = {c \in Contents(d) : c[1] # k} \cup {<<k, kept>>}
               /\ Contents(r.d) = {c \in Contents(d) : c[1] # k} \cup {<<k, v2>>}
               /\ (Observable(a2.d) = Observable(r.d)) <=> (kept = v2)

\* a second dictAdd of a key failed on a full key set, a rehash going on
C21_Witness ==
    /\ last.op = "add"
    /\ last.ret = DICT_ERR
    /\ Present = Keys
    /\ dictIsRehashing(d)
    /\ d.ht_used[1] > 0

\* C22: for every key k, dictUnlink(k) followed by dictFreeUnlinkedEntry of the
\* entry it returned leaves the container (tables, chains, used counts, cursor)
\* as dictDelete(k) leaves it and makes the same destructor calls; when k is
\* absent dictUnlink returns NULL, dictFreeUnlinkedEntry(NULL) calls nothing
\* and dictDelete returns DICT_ERR, and when k is present the entry returned
\* holds k, dictDelete returns DICT_OK and the destructors run once on the key
\* and the value of k.
C22_UnlinkFreeIsDelete ==
    Running =>
        \A k \in Keys :
            LET u == dictUnlink(Begin, k)
                freed == u.freed \o dictFreeUnlinkedEntry(u.ret)
                del == dictDelete(Begin, k)
            IN /\ u.d = del.d
               /\ freed = del.freed
               /\ k \notin Present =>
                      /\ u.ret = << >>
                      /\ freed = << >>
                      /\ del.ret = DICT_ERR
                      /\ Observable(u.d) = Observable(d)
               /\ k \in Present =>
                      /\ u.ret # << >>
                      /\ u.ret[1].key = k
                      /\ del.ret = DICT_OK
                      /\ freed = <<<<"keyDestructor", k>>>>
                                     \o (IF type.no_value THEN << >>
                                         ELSE <<<<"valDestructor", ref[k]>>>>)
                      /\ Contents(u.d) = {c \in Contents(d) : c[1] # k}

\* a dictUnlink that returned an entry after migrating a bucket of a rehash
\* that is still going on
C22_Witness ==
    /\ last.op = "unlink"
    /\ last.ret = 1
    /\ d.moved # {}
    /\ dictIsRehashing(d)

\* the integers dictFingerprint hashes, without the two table addresses
FingerprintInputs(dd) ==
    <<dd.ht_size_exp[0], dd.ht_used[0], dd.ht_size_exp[1], dd.ht_used[1]>>

\* the calls that led to dd migrated no entry and neither started nor
\* completed a resize
Quiet(dd) == dd.moved = {} /\ dd.fired = << >>

\* dictAdd of an absent key directly followed by dictDelete of that key, both
\* succeeding; Restored says what of the state before is found again
AddThenDelete(Restored(_)) ==
    Running =>
        \A k \in FillKeys \ Present, v \in Vals :
            LET a == dictAdd(Begin, k, v)
                r == dictDelete(a.d, k)
            IN r.d.fault = "none" =>
                   /\ a.ret = DICT_OK
                   /\ r.ret = DICT_OK
                   /\ Restored(r.d)

\* C23 as stated: for every key k not present, dictAdd(k) directly followed by
\* dictDelete(k) returns the container to the same dictSize and to the same
\* table exponents and used[0], used[1].
C23_SameFingerprintInputs ==
    AddThenDelete(LAMBDA after :
        /\ dictSize(after) = dictSize(d)
        /\ FingerprintInputs(after) = FingerprintInputs(d))

\* C23 amended: for every key k not present, dictAdd(k) directly followed by
\* dictDelete(k) returns the container to the same dictSize, keys and values;
\* the table exponents and used[0], used[1] are those before exactly when the
\* two calls migrated no entry and neither started nor completed a resize.
C23_SameSize ==
    AddThenDelete(LAMBDA after :
        /\ Observable(after) = Observable(d)
        /\ (FingerprintInputs(after) = FingerprintInputs(d)) <=> Quiet(after))

\* a full table of the initial size that is not rehashing, resizing enabled:
\* the add of the next key starts the expansion and the delete of that key
\* leaves the container rehashing, with the size it had
C23_Witness ==
    /\ Running
    /\ ~dictIsRehashing(d)
    /\ d.ht_used[0] = DICT_HT_INITIAL_SIZE
    /\ \E k \in FillKeys \ Present :
           LET a == dictAdd(Begin, k, 1)
               r == dictDelete(a.d, k)
           IN /\ a.ret = DICT_OK
              /\ r.ret = DICT_OK
              /\ dictIsRehashing(r.d)
              /\ dictSize(r.d) = dictSize(d)
              /\ FingerprintInputs(r.d) # FingerprintInputs(d)

\* the number of times key k is in the sequence of keys
TimesIn(keys, k) == Cardinality({i \in DOMAIN keys : keys[i] = k})

\* the cursor as the scan counts it: the bits under the mask of the smaller
\* table, the highest first
ScanRank(dd, v) ==
    With(IF dictIsRehashing(dd) /\ dd.ht_size_exp[1] < dd.ht_size_exp[0]
         THEN dd.ht_size_exp[1] ELSE dd.ht_size_exp[0], LAMBDA e :
        rev(BitAnd(v, DICTHT_SIZE_MASK(e)), e))

\* C24, every call: a dictScan call on a container that holds a key returns
\* either 0 or a cursor that counts higher than the cursor it was given, so a
\* scan ends within as many calls as the smaller table has buckets; a key is
\* never passed to the callback twice, and when the call returns 0 every key
\* present has been passed exactly once.
C24_ScanStep ==
    /\ \A k \in FillKeys : TimesIn(last.trace, k) <= 1
    /\ {last.trace[i] : i \in DOMAIN last.trace} = last.seen
    /\ last.seen \subseteq Present
    /\ last.done => last.seen = Present
    /\ (Running /\ dictSize(d) > 0) =>
           \/ dictScan(d, last.cursor).ret = 0
           \/ ScanRank(d, dictScan(d, last.cursor).ret) > ScanRank(d, last.cursor)

\* C24: a scan started with cursor 0 and repeated with each returned cursor,
\* the container not being touched in between, returns cursor 0 after finitely
\* many calls and has then passed every present key to the callback exactly
\* once, whether or not a rehash is in progress.
C24_ScanVisitsOnce == [](C24_ScanStep) /\ (last.scanning ~> last.done)

\* a scan of a container that is rehashing from 16 to 4 buckets with keys in
\* both tables has ended
C24_Witness ==
    /\ last.done
    /\ dictIsRehashing(d)
    /\ d.ht_used[0] > 1
    /\ d.ht_used[1] > 1
    /\ Len(last.trace) = dictSize(d)
    /\ d.ht_size_exp[0] = 4
    /\ d.ht_size_exp[1] = DICT_HT_INITIAL_EXP

\* C25: when a scan that started with cursor 0 has returned cursor 0, whatever
\* inserts, deletes, rehash steps, expansions and shrinks were made between
\* its calls, every key that was present from its first call to its last has
\* been passed to the callback.
C25_ScanMissesNoStableKey ==
    /\ last.stable \subseteq Present
    /\ last.done => last.stable \subseteq last.seen

\* a scan has ended that started on 4 buckets and saw the table grow to 16
\* buckets and a key deleted between its calls, two keys being present
\* throughout
C25_Witness ==
    /\ last.done
    /\ Cardinality(last.stable) = 2
    /\ Cardinality(last.seen) = NumKeys
    /\ Cardinality(Present) = 2
    /\ ~dictIsRehashing(d)
    /\ d.ht_size_exp[0] = 4

\* ------------------------------------------------------------ iterators
\* An iterator.  entry and nextEntry point to entries: the model writes the
\* key of the entry pointed to, 0 for NULL.
dictInitIterator ==
    [table |-> 0, index |-> -1, safe |-> FALSE, entry |-> 0, nextEntry |-> 0,
     fingerprint |-> << >>]

dictInitSafeIterator == [dictInitIterator EXCEPT !.safe = TRUE]

dictPauseRehashing(dd) == [dd EXCEPT !.pauserehash = @ + 1]

dictResumeRehashing(dd) == [dd EXCEPT !.pauserehash = @ - 1]

\* the key of the first entry of a chain, 0 for an empty one
FirstOf(chain) == IF chain = << >> THEN 0 ELSE Head(chain).key

\* what reading through a pointer to a released entry is written as
Dangling == -1

\* dictGetNext of the entry that holds key; Dangling when no table links such
\* an entry any more
NextOf(dd, key) ==
    LET at == {ti \in UNION {{<<t, i>> : i \in DOMAIN dd.ht_table[t]} : t \in 0..1} :
                   ChainFind(dd.ht_table[ti[1]][ti[2]], key) # 0}
    IN IF at = {} THEN Dangling
       ELSE LET ti == CHOOSE x \in at : TRUE
                chain == dd.ht_table[ti[1]][ti[2]]
                pos == ChainFind(chain, key)
            IN FirstOf(dictGetNext(SubSeq(chain, pos, Len(chain))))

\* dictResetIterator that resumes rehashing whether or not dictNext was called
dictResetIterator_AlwaysResumes(dd, iter) ==
    IF iter.safe THEN dictResumeRehashing(dd) ELSE dd

dictResetIterator(dd, iter) ==
    IF ~(iter.index = -1 /\ iter.table = 0)
    THEN IF iter.safe
         THEN With(dictResumeRehashing(dd), LAMBDA d1 :
                  IF d1.pauserehash >= 0 THEN d1 ELSE Fault(d1, "assert"))
         ELSE IF iter.fingerprint = FingerprintInputs(dd) THEN dd ELSE Fault(dd, "assert")
    ELSE dd

\* the first pass of dictNext through "if (iter->index == -1 && iter->table == 0)"
dictNextFirst(dd, iter) ==
    IF iter.index = -1 /\ iter.table = 0
    THEN [d |-> IF iter.safe THEN dictPauseRehashing(dd) ELSE dd,
          iter |-> [iter EXCEPT !.fingerprint = IF iter.safe THEN @ ELSE FingerprintInputs(dd),
                                !.index = IF dictIsRehashing(dd) THEN dd.rehashidx - 1 ELSE @]]
    ELSE [d |-> dd, iter |-> iter]

\* where the loop of dictNext stops when it enters table with index + 1 = from:
\* the first index from there on with a non-empty bucket, or the first index
\* that is not below the table's size
NextBucket(dd, table, from) ==
    LET size == DICTHT_SIZE(dd.ht_size_exp[table])
        stops == {i \in from..(size - 1) : dd.ht_table[table][i] # << >>} \cup {size}
    IN IF from >= size THEN from
       ELSE CHOOSE i \in stops : \A other \in stops : i <= other

\* dictNext returning the first entry of the bucket where its loop stopped
dictNextReturn(dd, iter) ==
    With(FirstOf(dd.ht_table[iter.table][iter.index]), LAMBDA entry :
        [d |-> dd,
         iter |-> [iter EXCEPT !.entry = entry, !.nextEntry = NextOf(dd, entry)],
         ret |-> entry])

\* dictNext entered with iter->entry == NULL
dictNextFromBucket(dd, iter) ==
    With(dictNextFirst(dd, iter), LAMBDA f :
    With([f.iter EXCEPT !.index = NextBucket(f.d, f.iter.table, @ + 1)], LAMBDA i0 :
        IF i0.index < DICTHT_SIZE(f.d.ht_size_exp[i0.table])
        THEN dictNextReturn(f.d, i0)
        ELSE IF dictIsRehashing(f.d) /\ i0.table = 0
        THEN With([i0 EXCEPT !.table = 1, !.index = NextBucket(f.d, 1, 0)], LAMBDA i1 :
                 IF i1.index < DICTHT_SIZE(f.d.ht_size_exp[1])
                 THEN dictNextReturn(f.d, i1)
                 ELSE [d |-> f.d, iter |-> i1, ret |-> 0])
        ELSE [d |-> f.d, iter |-> i0, ret |-> 0]))

\* ret is the key of the entry returned, 0 for NULL
dictNext(dd, iter) ==
    IF iter.entry = 0 \/ iter.nextEntry = 0
    THEN dictNextFromBucket(dd, [iter EXCEPT !.entry = 0])
    ELSE IF NextOf(dd, iter.nextEntry) = Dangling
    THEN [d |-> Fault(dd, "use_after_free"), iter |-> iter, ret |-> 0]
    ELSE [d |-> dd,
          iter |-> [iter EXCEPT !.entry = iter.nextEntry,
                                !.nextEntry = NextOf(dd, iter.nextEntry)],
          ret |-> iter.nextEntry]

\* what the caller of an iterator holds: the iterator, whether dictNext was
\* called on it and has returned NULL, the key of the entry dictNext returned
\* last (0 once deleted), the keys present at the first dictNext, the keys
\* returned and those returned more than once
IterIdle ==
    [op |-> "none", open |-> FALSE, iter |-> dictInitIterator, advanced |-> FALSE,
     ended |-> FALSE, current |-> 0, atfirst |-> {}, returned |-> {}, repeated |-> {}]

\* a call made while no iterator is open
OutsideIteration(r) ==
    /\ Running
    /\ ~last.open
    /\ d' = r.d
    /\ last' = IterIdle
    /\ UNCHANGED <<type, dict_can_resize>>

IterAdd(k, v) ==
    /\ OutsideIteration(dictAdd(Begin, k, v))
    /\ ref' = IF k \in Present THEN ref
              ELSE Put(ref, k, IF type.no_value THEN NoVal ELSE v)

IterDelete(k) ==
    /\ OutsideIteration(dictDelete(Begin, k))
    /\ ref' = Remove(ref, k)

IterExpand(size) == OutsideIteration(dictExpand(Begin, size)) /\ ref' = ref

IterShrink(size) == OutsideIteration(dictShrink(Begin, size)) /\ ref' = ref

IterRehash(n) == OutsideIteration(dictRehash(Begin, n)) /\ ref' = ref

\* dictPauseRehashing / dictResumeRehashing by the caller itself
IterPause ==
    /\ d.pauserehash < MaxPause
    /\ OutsideIteration([d |-> dictPauseRehashing(Begin)])
    /\ ref' = ref

IterResume ==
    /\ d.pauserehash > 0
    /\ OutsideIteration([d |-> dictResumeRehashing(Begin)])
    /\ ref' = ref

\* dictInitIterator / dictInitSafeIterator
IterOpen(safe) ==
    /\ Running
    /\ ~last.open
    /\ d' = Begin
    /\ last' = [IterIdle EXCEPT !.op = "init", !.open = TRUE,
                                !.iter = IF safe THEN dictInitSafeIterator
                                         ELSE dictInitIterator]
    /\ UNCHANGED <<type, dict_can_resize, ref>>

\* dictNext, until it has returned NULL
IterNext ==
    /\ Running
    /\ last.open
    /\ ~last.ended
    /\ \E r \in {dictNext(Begin, last.iter)} :
        /\ d' = r.d
        /\ last' = [last EXCEPT !.op = "next",
                                !.iter = r.iter,
                                !.advanced = TRUE,
                                !.ended = r.ret = 0,
                                !.current = r.ret,
                                !.atfirst = IF last.advanced THEN @ ELSE Present,
                                !.returned = IF r.ret = 0 THEN @ ELSE @ \cup {r.ret},
                                !.repeated = IF r.ret \in last.returned
                                             THEN @ \cup {r.ret} ELSE @]
    /\ UNCHANGED <<type, dict_can_resize, ref>>

\* dictDelete of the entry the safe iterator returned last
IterDeleteCurrent ==
    /\ Running
    /\ last.open
    /\ last.iter.safe
    /\ last.current # 0
    /\ d' = dictDelete(Begin, last.current).d
    /\ last' = [last EXCEPT !.op = "delete", !.current = 0]
    /\ ref' = Remove(ref, last.current)
    /\ UNCHANGED <<type, dict_can_resize>>

\* dictResetIterator
IterRelease ==
    /\ Running
    /\ last.open
    /\ d' = dictResetIterator(Begin, last.iter)
    /\ last' = [last EXCEPT !.op = "release", !.open = FALSE]
    /\ UNCHANGED <<type, dict_can_resize, ref>>

IterSizes == {3, 8, 16}

InitIter ==
    /\ d = dictInit
    /\ type \in DictTypes
    /\ dict_can_resize \in {"enable", "avoid", "forbid"}
    /\ ref = EmptyMap
    /\ last = IterIdle

NextIter ==
    \/ \E k \in Keys, v \in Vals : IterAdd(k, v)
    \/ \E k \in Keys : IterDelete(k)
    \/ \E size \in IterSizes : IterExpand(size)
    \/ \E size \in IterSizes : IterShrink(size)
    \/ \E n \in RehashSteps : IterRehash(n)
    \/ IterPause
    \/ IterResume
    \/ \E safe \in BOOLEAN : IterOpen(safe)
    \/ IterNext
    \/ IterDeleteCurrent
    \/ IterRelease

SpecIter == InitIter /\ [][NextIter]_vars

\* C26: a safe iterator increments pauserehash by one on its first dictNext
\* and on no later one; its release decrements pauserehash by one when dictNext
\* was called at least once and leaves it unchanged when it never was.
C26_SafeIteratorPauseBalanced ==
    [][/\ last'.op = "next" /\ last.iter.safe =>
            d'.pauserehash = d.pauserehash + (IF last.advanced THEN 0 ELSE 1)
       /\ last'.op = "release" /\ last.iter.safe =>
            d'.pauserehash = d.pauserehash - (IF last.advanced THEN 1 ELSE 0)]_vars

\* a safe iterator over an empty dict paused by its caller was advanced once
\* and released
C26_Witness ==
    /\ last.op = "release"
    /\ last.iter.safe
    /\ last.advanced
    /\ last.returned = {}
    /\ d.pauserehash = 1
    /\ Running

\* a safe iterator has returned NULL; the caller deleted nothing but entries
\* the iterator had just returned
SafeIterationEnded == last.open /\ last.iter.safe /\ last.ended

\* C27: a safe iterator run until dictNext returns NULL, during which the
\* caller deletes nothing but the entry just returned, has returned every
\* entry present at the first dictNext, and none twice.
C27_SafeIteratorVisitsAllOnce ==
    /\ last.repeated = {}
    /\ SafeIterationEnded => last.returned = last.atfirst

\* the same for the types that rehash incrementally
C27_IncrementalVisitsAllOnce ==
    ~type.no_incremental_rehash => C27_SafeIteratorVisitsAllOnce

\* dictTwoPhaseUnlinkFind of k followed at once by dictTwoPhaseUnlinkFree of
\* what it returned: the find pauses rehashing iff it returns an entry, which
\* it does iff k is present; the free removes k and nothing else, takes one
\* off the used counter of the table the entry was found in and leaves
\* pauserehash as it was before the find; a free of NULL changes nothing.
\* AfterNull says what a find that returns NULL leaves behind.
TwoPhaseUnlinkExact(AfterNull(_)) ==
    Running =>
        /\ dictTwoPhaseUnlinkFree(Begin, << >>) = Begin
        /\ \A k \in Keys :
            LET f == dictTwoPhaseUnlinkFind(Begin, k)
                g == dictTwoPhaseUnlinkFree(f.d, f.ret)
            IN /\ (f.ret # << >>) <=> (k \in Present)
               /\ f.d.pauserehash = d.pauserehash + (IF f.ret # << >> THEN 1 ELSE 0)
               /\ f.ret = << >> => f.d = AfterNull(Begin)
               /\ f.ret # << >> =>
                    /\ EntryAt(f.d, f.ret[1], <<f.ret[2], f.ret[3]>>).key = k
                    /\ KeysIn(g, 0) \cup KeysIn(g, 1) = Present \ {k}
                    /\ Contents(g) \subseteq Contents(d)
                    /\ g.ht_used = [f.d.ht_used EXCEPT ![f.ret[1]] = @ - 1]
                    /\ g.pauserehash = d.pauserehash

\* what a find leaves that did nothing at all
Untouched(dd) == dd

\* what a find leaves that did its rehash step and no more
AfterRehashStep(dd) ==
    IF dictSize(dd) # 0 /\ dictIsRehashing(dd) THEN dictRehashStep(dd) ELSE dd

\* C28 as stated: two-phase unlink is balanced and exact, and a find that
\* returns NULL changes nothing.
C28_NullFindChangesNothing == TwoPhaseUnlinkExact(Untouched)

\* C28: two-phase unlink is balanced and exact; a find that returns NULL
\* leaves rehashing unpaused and changes nothing but for the one rehash step
\* it does before searching when the dict is rehashing and not paused.
C28_TwoPhaseUnlinkBalanced == TwoPhaseUnlinkExact(AfterRehashStep)

\* a rehashing dict, not paused: the find of an absent key migrates a bucket
\* and returns NULL, the find of a present key returns an entry of T[1]
C28_Witness ==
    /\ Running
    /\ dictIsRehashing(d)
    /\ d.pauserehash = 0
    /\ \E k \in Keys \ Present :
           dictTwoPhaseUnlinkFind(Begin, k).d.ht_used[1] > d.ht_used[1]
    /\ \E k \in Present :
           LET f == dictTwoPhaseUnlinkFind(Begin, k)
           IN f.ret[1] = 1 /\ dictTwoPhaseUnlinkFree(f.d, f.ret).pauserehash = 0

\* C29: dictTryExpand whose allocation of the new bucket array fails returns
\* DICT_ERR and leaves every field of the dict as it was, no callback fired;
\* the allocation is attempted, and so can fail, exactly for the sizes that
\* dictExpand accepts; dictTryExpand whose allocation does not fail returns
\* DICT_OK and does what dictExpand does, also when that is nothing.
C29_TryExpandFailure ==
    Running =>
        \A size \in ResizeSizes :
            LET failing == dictTryExpand(Begin, size, TRUE)
                passing == dictTryExpand(Begin, size, FALSE)
                plain == dictExpand(Begin, size)
            IN /\ (failing.ret = DICT_ERR) <=> (plain.ret = DICT_OK)
               /\ failing.ret = DICT_ERR => failing.d = Begin
               /\ failing.ret = DICT_OK => failing.d = plain.d
               /\ passing.ret = DICT_OK
               /\ passing.d = plain.d

\* a dict with entries, not rehashing: a failed allocation for 16 buckets is
\* reported, an expand to 3 buckets is skipped and reported as DICT_OK
C29_Witness ==
    /\ Running
    /\ ~dictIsRehashing(d)
    /\ d.ht_used[0] > 0
    /\ d.ht_size_exp[0] = 3
    /\ dictTryExpand(Begin, 16, TRUE).ret = DICT_ERR
    /\ dictTryExpand(Begin, 16, FALSE).d.fired = <<"rehashingStarted">>
    /\ dictTryExpand(Begin, 3, TRUE).ret = DICT_OK

\* an expand to size is invalid: not larger than |T[0]|, smaller than used[0],
\* or asked for while rehashing
ExpandInvalid(dd, size) ==
    \/ dictIsRehashing(dd)
    \/ size <= DICTHT_SIZE(dd.ht_size_exp[0])
    \/ size < dd.ht_used[0]

\* a shrink to size is invalid: not smaller than |T[0]|, smaller than used[0],
\* or asked for while rehashing
ShrinkInvalid(dd, size) ==
    \/ dictIsRehashing(dd)
    \/ size >= DICTHT_SIZE(dd.ht_size_exp[0])
    \/ size < dd.ht_used[0]

\* the size rounds to the exponent T[0] has
SameExponent(dd, size) == dictNextExp(size) = dd.ht_size_exp[0]

\* an invalid or same-exponent dictExpand, dictShrink or dictTryExpand leaves
\* the dict as it was, no callback fired; dictExpand and dictShrink return
\* DICT_ERR, dictTryExpand returns TryExpandReturns
RejectedResize(TryExpandReturns) ==
    Running =>
        \A size \in ResizeSizes :
            /\ ExpandInvalid(Begin, size) \/ SameExponent(Begin, size) =>
                /\ dictExpand(Begin, size) = [d |-> Begin, ret |-> DICT_ERR]
                /\ \A malloc_fails \in BOOLEAN :
                       dictTryExpand(Begin, size, malloc_fails)
                           = [d |-> Begin, ret |-> TryExpandReturns]
            /\ ShrinkInvalid(Begin, size) \/ SameExponent(Begin, size) =>
                dictShrink(Begin, size) = [d |-> Begin, ret |-> DICT_ERR]

\* C30 as stated: every explicit resize that is invalid or would keep the
\* exponent, dictTryExpand included, returns DICT_ERR and changes nothing.
C30_RejectedResizeIsError == RejectedResize(DICT_ERR)

\* C30: a dictExpand or dictShrink that is invalid or would keep the exponent
\* returns DICT_ERR and leaves the dict unchanged, no notification fired; such
\* a dictTryExpand leaves the dict unchanged too and returns DICT_OK.
C30_RejectedResizeUnchanged == RejectedResize(DICT_OK)

\* 8 buckets holding 5 entries, not rehashing: a shrink to 3 is refused for
\* the entries, an expand to 8 for the size
C30_Witness ==
    /\ Running
    /\ ~dictIsRehashing(d)
    /\ d.ht_size_exp[0] = 3
    /\ d.ht_used[0] = 5
    /\ dictShrink(Begin, 3).ret = DICT_ERR
    /\ dictExpand(Begin, 8).ret = DICT_ERR
    /\ dictTryExpand(Begin, 8, FALSE).ret = DICT_OK
    /\ dictExpand(Begin, 16).ret = DICT_OK

\* ------------------------------------------------------------ chain order
\* the keys of a chain, from its head
ChainKeys(chain) == [i \in 1..Len(Walk(chain)) |-> Walk(chain)[i].key]

Reverse(seq) == [i \in 1..Len(seq) |-> seq[Len(seq) + 1 - i]]

\* In SpecPause the keys 1, 2, 3, ... are added in this order and the last
\* one added is the first to go, so a larger key is a key added later.
NewestFirst(keys) == \A i, j \in 1..Len(keys) : i < j => keys[i] > keys[j]

\* the bucket of T[1] an entry of bucket idx of T[0] migrates to
MigratesTo(dd, idx, key) ==
    IF dd.ht_size_exp[1] > dd.ht_size_exp[0]
    THEN BitAnd(dictHashKey(key), DICTHT_SIZE_MASK(dd.ht_size_exp[1]))
    ELSE BitAnd(idx, DICTHT_SIZE_MASK(dd.ht_size_exp[1]))

\* C31 as stated: in every chain a key added later is nearer the head, also
\* after entries have been migrated by rehashing.
C31_ChainsNewestFirst ==
    Running =>
        \A t \in 0..1 : \A idx \in Buckets(d, t) :
            NewestFirst(ChainKeys(d.ht_table[t][idx]))

\* C31: dictAdd links the new entry at the head of its chain, in front of the
\* entries the bucket held; the migration of a bucket links each of its
\* entries, taken from the head on, at the head of its destination chain, so
\* the entries of one source chain that meet again are in reverse order there,
\* in front of the entries the destination held.
C31_NewestAtHead ==
    Running =>
        /\ \A v \in Vals :
            LET k == Cardinality(Present) + 1
                f == dictFindPositionForInsert(Begin, k)
                r == dictAdd(Begin, k, v)
            IN (r.ret = DICT_OK /\ r.d.fault = "none") =>
                ChainKeys(r.d.ht_table[f.position[1]][f.position[2]])
                    = <<k>> \o ChainKeys(f.d.ht_table[f.position[1]][f.position[2]])
        /\ dictIsRehashing(d) =>
            \A idx \in {i \in Buckets(d, 0) : d.ht_table[0][i] # << >>} :
                With(rehashEntriesInBucketAtIndex(d, idx), LAMBDA m :
                With(ChainKeys(d.ht_table[0][idx]), LAMBDA source :
                    \A h \in Buckets(d, 1) :
                        ChainKeys(m.ht_table[1][h])
                            = Reverse(SelectSeq(source, LAMBDA key : MigratesTo(d, idx, key) = h))
                                  \o ChainKeys(d.ht_table[1][h])))

\* the call that led here migrated entries, and a chain now holds an older
\* key in front of a newer one
C31_Witness ==
    /\ Running
    /\ d.moved # {}
    /\ \E t \in 0..1 : \E idx \in Buckets(d, t) :
           ~NewestFirst(ChainKeys(d.ht_table[t][idx]))

\* ------------------------------------------------------------ dictRehash
\* what dictRehash(d, n) returns against the state it leaves; WhenBlocked says
\* whether the gate of the global resize state is taken into account
RehashReturn(WhenBlocked(_)) ==
    Running =>
        \A n \in RehashSteps :
            LET r == dictRehash(Begin, n)
            IN r.d.fault = "none" =>
                /\ (r.ret = 1) <=> (dictIsRehashing(r.d) /\ ~WhenBlocked(Begin))
                /\ r.ret \in {0, 1}
                /\ r.ret = 1 => r.d.ht_used[0] > 0
                /\ WhenBlocked(Begin) => r.d = Begin

\* the gate never taken
NeverBlocked(dd) == FALSE

C33_PositionInReceivingTable ==
    Running =>
        \A k \in FillKeys \ Present :
            LET f == dictFindPositionForInsert(Begin, k)
                t == IF dictIsRehashing(f.d) THEN 1 ELSE 0
            IN f.d.fault = "none" =>
                /\ f.existing = << >>
                /\ f.position[1] = t
                /\ f.position[2] \in Buckets(f.d, t)
                /\ f.position[2] = BitAnd(dictHashKey(k), DICTHT_SIZE_MASK(f.d.ht_size_exp[t]))
                /\ dictInsertAtPosition(f.d, k, f.position).fault = "none"

\* the call completed a shrinking rehash for one absent key and returned the
\* key's bucket in the new T[0], not the one of the index computed on entry
C33_Witness ==
    /\ Running
    /\ dictIsRehashing(d)
    /\ \E k \in FillKeys \ Present :
           LET f == dictFindPositionForInsert(Begin, k)
           IN /\ f.d.fault = "none"
              /\ ~dictIsRehashing(f.d)
              /\ f.position[1] = 0
              /\ f.position[2] # BitAnd(dictHashKey(k), DICTHT_SIZE_MASK(d.ht_size_exp[0]))

\* ------------------------------------------------------------ replace
\* C34: dictReplace of a present key stores the new value in the entry and
\* then invokes the value destructor, once, on the value the entry held
\* before; dictReplace of an absent key stores the value and invokes no
\* destructor.
C34_ReplaceStoresThenDestroys ==
    (Running /\ ~type.no_value) =>
        \A k \in Keys, v \in Vals :
            LET r == dictReplace(Begin, k, v)
            IN r.d.fault = "none" =>
                /\ r.events = IF k \in Present
                              THEN <<<<"dictSetVal", v>>, <<"valDestructor", ref[k]>>>>
                              ELSE <<<<"dictSetVal", v>>>>
                /\ r.ret = (IF k \in Present THEN 0 ELSE 1)
                /\ dictFetchValue(r.d, k).ret = v

\* a rehashing dict holding a key whose value was never written: replacing it
\* stores the new value and then releases the old one
C34_Witness ==
    /\ Running
    /\ ~type.no_value
    /\ dictIsRehashing(d)
    /\ \E k \in Present, v \in Vals :
           /\ ref[k] # v
           /\ dictReplace(Begin, k, v).events
                  = <<<<"dictSetVal", v>>, <<"valDestructor", ref[k]>>>>

\* ------------------------------------------------------------ keys stored directly
\* only the last entry of the chain may be a key stored directly in the
\* bucket, every other entry is an allocated entry without value
DirectKeyLast(chain) ==
    /\ \A i \in 1..Len(chain) : chain[i].kind \in {"key", "novalue"}
    /\ \A i \in 1..(Len(chain) - 1) : chain[i].kind = "novalue"

\* C35: for a no_value type with keys_are_odd, in every state a key stored
\* directly is the last element of its chain, so a chain walk reaches every
\* entry counted; dictAdd stores the key directly iff the bucket is empty at
\* the insertion and otherwise links an allocated entry at the head, in front
\* of the chain the bucket held; a migration stores the key directly iff the
\* destination bucket is empty when the entry arrives.
C35_DirectKeysEndChains ==
    (Running /\ type.no_value /\ type.keys_are_odd) =>
        /\ \A t \in 0..1 : \A idx \in Buckets(d, t) : DirectKeyLast(d.ht_table[t][idx])
        /\ dictSize(d) = Cardinality(KeysIn(d, 0)) + Cardinality(KeysIn(d, 1))
        /\ \A k \in FillKeys \ Present :
            LET f == dictFindPositionForInsert(Begin, k)
                r == dictAdd(Begin, k, NoVal)
            IN r.d.fault = "none" =>
                LET before == f.d.ht_table[f.position[1]][f.position[2]]
                    after == r.d.ht_table[f.position[1]][f.position[2]]
                IN /\ Head(after).key = k
                   /\ Head(after).kind = (IF before = << >> THEN "key" ELSE "novalue")
                   /\ ChainKeys(after) = <<k>> \o ChainKeys(before)
        /\ dictIsRehashing(d) =>
            \A idx \in {i \in Buckets(d, 0) : d.ht_table[0][i] # << >>} :
                With(rehashEntriesInBucketAtIndex(d, idx), LAMBDA m :
                    \A h \in Buckets(d, 1) :
                        /\ DirectKeyLast(m.ht_table[1][h])
                        /\ (d.ht_table[1][h] = << >> /\ m.ht_table[1][h] # << >>) =>
                               m.ht_table[1][h][Len(m.ht_table[1][h])].kind = "key")

\* a no_value, keys_are_odd dict that is rehashing, with a chain of an
\* allocated entry in front of a directly stored key, and a key stored
\* directly in T[0] whose destination bucket is not empty
C35_Witness ==
    /\ Running
    /\ type.no_value
    /\ type.keys_are_odd
    /\ dictIsRehashing(d)
    /\ \E t \in 0..1 : \E idx \in Buckets(d, t) :
           /\ Len(d.ht_table[t][idx]) = 2
           /\ d.ht_table[t][idx][1].kind = "novalue"
           /\ d.ht_table[t][idx][2].kind = "key"
    /\ \E idx \in Buckets(d, 0) :
           /\ d.ht_table[0][idx] # << >>
           /\ Head(d.ht_table[0][idx]).kind = "key"
           /\ d.ht_table[1][MigratesTo(d, idx, Head(d.ht_table[0][idx]).key)] # << >>

\* ------------------------------------------------------------ sampling
GETFAIR_NUM_ENTRIES == 15

\* The state of the sampling loop of dictGetSomeKeys: the bucket index i, the
\* run of empty buckets, the entries seen, the array des (slot -> key, 0 for a
\* slot not written), the iterations of the while loop done, and whether the
\* loop was left by "goto end".
\* One pass of the for loop over the tables, for table j.  The random numbers
\* are inputs: jump for a new random position, r for a reservoir draw.
SampleTable(dd, st, j, count, tables, maxsizemask, jump, r) ==
    LET skipped == tables = 2 /\ j = 0 /\ st.i < dd.rehashidx
        i == IF skipped /\ st.i >= DICTHT_SIZE(dd.ht_size_exp[1]) THEN dd.rehashidx ELSE st.i
        chain == IF i >= DICTHT_SIZE(dd.ht_size_exp[j]) THEN << >>
                 ELSE ChainKeys(dd.ht_table[j][i])
        slot(n) == IF st.stored + n - 1 < count THEN st.stored + n - 1
                   ELSE r % (st.stored + n)
        writers(x) == {n \in 1..Len(chain) : slot(n) = x}
        last_writer(x) == CHOOSE n \in writers(x) : \A other \in writers(x) : other <= n
    IN IF st.end \/ (skipped /\ st.i < DICTHT_SIZE(dd.ht_size_exp[1])) THEN st
       ELSE IF i >= DICTHT_SIZE(dd.ht_size_exp[j]) THEN [st EXCEPT !.i = i]
       ELSE IF chain = << >>
       THEN IF st.emptylen + 1 >= 5 /\ st.emptylen + 1 > count
            THEN [st EXCEPT !.i = BitAnd(jump, maxsizemask), !.emptylen = 0]
            ELSE [st EXCEPT !.i = i, !.emptylen = @ + 1]
       ELSE [st EXCEPT !.i = i,
                       !.emptylen = 0,
                       !.des = [x \in DOMAIN st.des |->
                                   IF writers(x) = {} THEN st.des[x]
                                   ELSE chain[last_writer(x)]],
                       !.stored = @ + Len(chain),
                       !.end = st.stored + Len(chain) >= count]

RECURSIVE SampleLoop(_, _, _, _, _, _, _)
\* while (stored < count && maxsteps--)
SampleLoop(dd, st, count, tables, maxsizemask, jump, r) ==
    IF st.end \/ ~(st.stored < count) \/ st.steps = count * 10 THEN st
    ELSE LET first == SampleTable(dd, [st EXCEPT !.steps = @ + 1], 0, count, tables,
                                  maxsizemask, jump, r)
             second == IF tables = 2
                       THEN SampleTable(dd, first, 1, count, tables, maxsizemask, jump, r)
                       ELSE first
         IN SampleLoop(dd,
                       IF second.end THEN second
                       ELSE [second EXCEPT !.i = BitAnd(@ + 1, maxsizemask)],
                       count, tables, maxsizemask, jump, r)

RECURSIVE SampleRehash(_, _)
\* the rehash work of dictGetSomeKeys, proportional to count
SampleRehash(dd, count) ==
    IF count = 0 \/ ~dictIsRehashing(dd) THEN dd
    ELSE SampleRehash(dictRehashStep(dd), count - 1)

dictGetSomeKeys_ReturnsStored(dd, asked, start, jump, r) ==
    With(IF dictSize(dd) < asked THEN dictSize(dd) ELSE asked, LAMBDA count :
    With(SampleRehash(dd, count), LAMBDA d1 :
    With(IF dictIsRehashing(d1) THEN 2 ELSE 1, LAMBDA tables :
    With(IF tables > 1 /\ d1.ht_size_exp[0] < d1.ht_size_exp[1]
         THEN DICTHT_SIZE_MASK(d1.ht_size_exp[1])
         ELSE DICTHT_SIZE_MASK(d1.ht_size_exp[0]), LAMBDA maxsizemask :
    With(SampleLoop(d1, [i |-> BitAnd(start, maxsizemask), emptylen |-> 0, stored |-> 0,
                         des |-> [x \in 0..(asked - 1) |-> 0], steps |-> 0, end |-> FALSE],
                    count, tables, maxsizemask, jump, r), LAMBDA st :
        [d |-> d1, ret |-> st.stored, des |-> st.des, steps |-> st.steps])))))

\* ret is the number of entries stored, des the array (slot -> key), steps the
\* number of iterations of the sampling loop; start, jump and r are the
\* random numbers drawn
dictGetSomeKeys(dd, asked, start, jump, r) ==
    With(IF dictSize(dd) < asked THEN dictSize(dd) ELSE asked, LAMBDA count :
    With(SampleRehash(dd, count), LAMBDA d1 :
    With(IF dictIsRehashing(d1) THEN 2 ELSE 1, LAMBDA tables :
    With(IF tables > 1 /\ d1.ht_size_exp[0] < d1.ht_size_exp[1]
         THEN DICTHT_SIZE_MASK(d1.ht_size_exp[1])
         ELSE DICTHT_SIZE_MASK(d1.ht_size_exp[0]), LAMBDA maxsizemask :
    With(SampleLoop(d1, [i |-> BitAnd(start, maxsizemask), emptylen |-> 0, stored |-> 0,
                         des |-> [x \in 0..(asked - 1) |-> 0], steps |-> 0, end |-> FALSE],
                    count, tables, maxsizemask, jump, r), LAMBDA st :
        [d |-> d1,
         ret |-> IF st.stored > count THEN count ELSE st.stored,
         des |-> st.des,
         steps |-> st.steps])))))

\* rets is the set of the entries (keys) dictGetRandomKey can return, one for
\* each bucket and chain position its random draws can select; 0 is NULL; an
\* empty set is a loop that never finds a non-empty bucket
dictGetRandomKey(dd) ==
    IF dictSize(dd) = 0 THEN [d |-> dd, rets |-> {0}]
    ELSE With(IF dictIsRehashing(dd) THEN dictRehashStep(dd) ELSE dd, LAMBDA d1 :
        [d |-> d1,
         rets |-> IF dictIsRehashing(d1)
                  THEN UNION {LET keys == ChainKeys(d1.ht_table[0][i])
                              IN {keys[n] : n \in 1..Len(keys)} :
                              i \in {b \in Buckets(d1, 0) : b >= d1.rehashidx}}
                       \cup KeysIn(d1, 1)
                  ELSE KeysIn(d1, 0)])

\* rets as for dictGetRandomKey; pick is the random number choosing among the
\* entries sampled
dictGetFairRandomKey(dd, start, jump, r, pick) ==
    With(dictGetSomeKeys(dd, GETFAIR_NUM_ENTRIES, start, jump, r), LAMBDA some :
        IF some.ret = 0 THEN dictGetRandomKey(some.d)
        ELSE [d |-> some.d, rets |-> {some.des[pick % some.ret]}])

SampleCounts == 0..3
SampleStarts == {0, 1, 7, 13}
SampleJumps == {5, 11}
SampleDraws == {0, 2}

\* dictGetSomeKeys(d, des, count) with the random numbers it draws
GetSomeKeys(count, start, jump, r) ==
    /\ Running
    /\ ~last.open
    /\ \E f \in {dictGetSomeKeys(Begin, count, start, jump, r)} :
        /\ d' = f.d
        /\ last' = [op |-> "somekeys", open |-> FALSE, asked |-> count, ret |-> f.ret,
                    des |-> f.des, steps |-> f.steps]
    /\ UNCHANGED <<type, dict_can_resize, ref>>

\* dictGetFairRandomKey(d) with the random numbers it draws
GetFairRandomKey(start, jump, r, pick) ==
    /\ Running
    /\ ~last.open
    /\ \E f \in {dictGetFairRandomKey(Begin, start, jump, r, pick)} :
        /\ d' = f.d
        /\ last' = [op |-> "fairrandom", open |-> FALSE, rets |-> f.rets]
    /\ UNCHANGED <<type, dict_can_resize, ref>>

InitSample ==
    /\ d = dictInit
    /\ type = DefaultType
    /\ dict_can_resize = "enable"
    /\ ref = EmptyMap
    /\ last = IterIdle

NextSample ==
    \/ \E k \in Keys, v \in Vals : IterAdd(k, v)
    \/ \E k \in Keys : IterDelete(k)
    \/ \E size \in IterSizes : IterExpand(size)
    \/ \E size \in IterSizes : IterShrink(size)
    \/ \E n \in RehashSteps : IterRehash(n)
    \/ \E count \in SampleCounts, start \in SampleStarts, jump \in SampleJumps,
          r \in SampleDraws : GetSomeKeys(count, start, jump, r)
    \/ \E start \in SampleStarts, jump \in SampleJumps, r \in SampleDraws,
          pick \in SampleDraws : GetFairRandomKey(start, jump, r, pick)

SpecSample == InitSample /\ [][NextSample]_vars

\* the keys of the entries linked in the container
Live == KeysIn(d, 0) \cup KeysIn(d, 1)

\* C36: dictGetSomeKeys(count) ends within 10*count iterations of its sampling
\* loop and returns r with 0 <= r <= min(count, dictSize), the first r slots of
\* des each holding an entry linked in the container; dictGetFairRandomKey
\* returns NULL exactly when the container is empty and otherwise an entry
\* linked in the container.
C36_SamplingLiveAndBounded ==
    /\ last.op = "somekeys" =>
        /\ last.steps <= 10 * last.asked
        /\ 0 <= last.ret
        /\ last.ret <= last.asked
        /\ last.ret <= dictSize(d)
        /\ \A slot \in 0..(last.ret - 1) : last.des[slot] \in Live
    /\ last.op = "fairrandom" =>
        /\ last.rets # {}
        /\ (0 \in last.rets) <=> (dictSize(d) = 0)
        /\ last.rets \ {0} \subseteq Live

\* a sample of two entries that took more than one iteration, on a rehashing
\* container
C36_Witness ==
    /\ last.op = "somekeys"
    /\ last.ret >= 2
    /\ last.steps >= 2
    /\ dictIsRehashing(d)

\* ------------------------------------------------------------ dictEmpty, dictRelease
\* callback is whether the caller passed one; it is called at bucket 0 of a
\* table that has entries
dictClear(dd, htidx, callback) ==
    dictReset([dd EXCEPT !.fired = IF callback /\ DICTHT_SIZE(dd.ht_size_exp[htidx]) > 0
                                      /\ dd.ht_used[htidx] > 0
                                   THEN Append(@, "callback") ELSE @],
              htidx)

\* dictEmpty that does not report a rehash it cuts short
dictEmpty_Silent(dd, callback) ==
    [dictClear(dictClear(dd, 0, callback), 1, callback)
     EXCEPT !.rehashidx = -1, !.pauserehash = 0, !.pauseAutoResize = 0]

dictEmpty(dd, callback) ==
    With(IF dictIsRehashing(dd) THEN [dd EXCEPT !.fired = Append(@, "rehashingCompleted")]
         ELSE dd, LAMBDA d1 :
        [dictClear(dictClear(d1, 0, callback), 1, callback)
         EXCEPT !.rehashidx = -1, !.pauserehash = 0, !.pauseAutoResize = 0])

\* the dict is freed: fault "released" stands for a dict no call may be made on
dictRelease(dd) ==
    With(IF dictIsRehashing(dd) THEN [dd EXCEPT !.fired = Append(@, "rehashingCompleted")]
         ELSE dd, LAMBDA d1 :
        Fault(dictClear(dictClear(d1, 0, FALSE), 1, FALSE), "released"))

\* dictEmpty, also while an iterator is open: its entries are freed, so dictNext
\* is not called on it again
Empty(callback) ==
    /\ Running
    /\ d' = dictEmpty(Begin, callback)
    /\ ref' = EmptyMap
    /\ last' = [last EXCEPT !.op = "empty", !.ended = TRUE, !.current = 0]
    /\ UNCHANGED <<type, dict_can_resize>>

Release ==
    /\ Running
    /\ ~last.open
    /\ d' = dictRelease(Begin)
    /\ ref' = EmptyMap
    /\ last' = [last EXCEPT !.op = "freed"]
    /\ UNCHANGED <<type, dict_can_resize>>

NextEmpty ==
    \/ NextIter
    \/ \E callback \in BOOLEAN : Empty(callback)
    \/ Release

SpecEmpty == InitIter /\ [][NextEmpty]_vars

\* the rehashingStarted and rehashingCompleted calls among the calls fired
Notifications(fired) ==
    SelectSeq(fired, LAMBDA f : f \in {"rehashingStarted", "rehashingCompleted"})

\* a rehash reported started and not yet reported completed
Pending(dd) == dd.fault # "released" /\ dictIsRehashing(dd)

Alternating(notes, first, second) ==
    \A i \in 1..Len(notes) : notes[i] = IF i % 2 = 1 THEN first ELSE second

\* C37: the rehashingStarted and rehashingCompleted notifications of every
\* operation alternate, beginning with rehashingCompleted when the dict was
\* rehashing before it and with rehashingStarted otherwise, and their number is
\* odd exactly when the operation changes whether the dict is rehashing; so
\* over a run they alternate from rehashingStarted on and started minus
\* completed is 1 when the dict is rehashing and 0 otherwise.
C37_NotificationsAlternate ==
    [][LET notes == Notifications(d'.fired)
       IN /\ IF Pending(d)
             THEN Alternating(notes, "rehashingCompleted", "rehashingStarted")
             ELSE Alternating(notes, "rehashingStarted", "rehashingCompleted")
          /\ (Len(notes) % 2 = 1) <=> (Pending(d) # Pending(d'))]_vars

\* dictEmpty has cut a rehash short and reported it completed
C37_Witness ==
    /\ last.op = "empty"
    /\ Notifications(d.fired) = <<"rehashingCompleted">>
    /\ ~dictIsRehashing(d)

\* C38: pauserehash is never negative, dictEmpty while a safe iterator is open
\* included.
C38_PauseNeverNegative == d.pauserehash >= 0

\* ------------------------------------------------------------ first insert
\* C39: dictFindPositionForInsert reads and returns only buckets of an
\* allocated table, in every reachable state, a dict without tables whose
\* pauseAutoResize is above 0 included.
C39_InsertReadsAllocatedBucket ==
    Running =>
        \A k \in FillKeys : dictFindPositionForInsert(Begin, k).d.fault # "null_deref"

\* ------------------------------------------------------------ rehash progress
\* A caller that keeps calling dictFind, dictAdd, dictDelete and dictRehash
\* while resizing is enabled; last.tick changes with every such call.  The
\* tables are also resized and rehashing paused and resumed by the caller.
ProgressCall(r) ==
    /\ Running
    /\ d' = r.d
    /\ last' = [op |-> "call", tick |-> 1 - last.tick]
    /\ UNCHANGED <<type, dict_can_resize>>

ProgressFind(k) == \E r \in {dictFind(Begin, k)} : ProgressCall(r) /\ ref' = ref

ProgressAdd(k, v) ==
    /\ \E r \in {dictAdd(Begin, k, v)} : ProgressCall(r)
    /\ ref' = IF k \in Present THEN ref ELSE Put(ref, k, v)

ProgressDelete(k) ==
    /\ \E r \in {dictDelete(Begin, k)} : ProgressCall(r)
    /\ ref' = Remove(ref, k)

ProgressRehash(n) == \E r \in {dictRehash(Begin, n)} : ProgressCall(r) /\ ref' = ref

\* dictExpand, dictShrink, dictPauseRehashing, dictResumeRehashing
ProgressOther(r) ==
    /\ Running
    /\ d' = r.d
    /\ UNCHANGED <<type, dict_can_resize, ref, last>>

ProgressExpand(size) == \E r \in {dictExpand(Begin, size)} : ProgressOther(r)

ProgressShrink(size) == \E r \in {dictShrink(Begin, size)} : ProgressOther(r)

ProgressPause ==
    /\ d.pauserehash < MaxPause
    /\ \E r \in {[d |-> dictPauseRehashing(Begin)]} : ProgressOther(r)

ProgressResume ==
    /\ d.pauserehash > 0
    /\ \E r \in {[d |-> dictResumeRehashing(Begin)]} : ProgressOther(r)

ProgressCalls ==
    \/ \E k \in Keys : ProgressFind(k)
    \/ \E k \in Keys, v \in Vals : ProgressAdd(k, v)
    \/ \E k \in Keys : ProgressDelete(k)
    \/ \E n \in RehashSteps : ProgressRehash(n)

InitProgress ==
    /\ d = dictInit
    /\ type = DefaultType
    /\ dict_can_resize = "enable"
    /\ ref = EmptyMap
    /\ last = [op |-> "none", tick |-> 0]

NextProgress ==
    \/ ProgressCalls
    \/ \E size \in IterSizes : ProgressExpand(size)
    \/ \E size \in IterSizes : ProgressShrink(size)
    \/ ProgressPause
    \/ ProgressResume

\* the calls keep being issued
SpecProgress == InitProgress /\ [][NextProgress]_vars /\ WF_vars(ProgressCalls)

\* a rehash that rehashing is not paused for
Unpaused == dictIsRehashing(d) /\ d.pauserehash = 0

\* the rehash is over, or rehashing is paused
EndedOrPaused ==
    \/ ~dictIsRehashing(d)
    \/ \E i \in 1..Len(d.fired) : d.fired[i] = "rehashingCompleted"
    \/ d.pauserehash > 0

\* C40 as stated: with resizing enabled and pauserehash = 0, a rehashing dict
\* on which find, add, delete or rehash calls keep being issued eventually
\* stops rehashing.
C40_RehashAlwaysEnds == Unpaused ~> EndedOrPaused

\* C40, amended: with resizing enabled and pauserehash = 0, every find, add,
\* delete or n-step rehash call on a rehashing dict that holds an entry
\* migrates a non-empty bucket of T[0], advances the cursor past 10 empty
\* buckets or completes the rehash, and such a dict on which these calls keep
\* being issued eventually stops rehashing.
C40_NonEmptyRehashEnds ==
    /\ [][(ProgressCalls /\ Unpaused /\ dictSize(d) > 0) =>
            \/ d'.moved # {}
            \/ d'.rehashidx >= d.rehashidx + 10
            \/ \E i \in 1..Len(d'.fired) : d'.fired[i] = "rehashingCompleted"]_vars
    /\ (Unpaused /\ dictSize(d) > 0) ~> EndedOrPaused

\* a call has advanced the cursor past 10 empty buckets and migrated nothing
C40_Witness ==
    /\ last.op = "call"
    /\ Unpaused
    /\ dictSize(d) > 0
    /\ d.moved = {}
    /\ d.rehashidx >= 10


====
